---- MODULE Spec2Model ----
(***************************************************************************)
(* Model of the block-ad core: the filter engine (rule classification,     *)
(* pattern compilation, the should_block decision procedure), the metrics  *)
(* recorder and the C boundary layer.                                      *)
(*                                                                         *)
(* Strings are TLA+ strings; positions are 0-based byte offsets as in the  *)
(* Rust source (the model's alphabets are ASCII, so bytes = characters).   *)
(***************************************************************************)
EXTENDS Integers, Sequences, FiniteSets, TLC

(***************************************************************************)
(* Bounds of the model.                                                    *)
(***************************************************************************)
MaxRules == 2
MaxCalls == 2
MaxLatency == 2
MaxLines == 2

(***************************************************************************)
(* std::str operations used by the engine.                                 *)
(***************************************************************************)
NotFound == 0 - 1

\* s[a..b]
Slice(s, a, b) == SubSeq(s, a + 1, b)

\* s[a..]
SliceFrom(s, a) == SubSeq(s, a + 1, Len(s))

\* s[a..] is in bounds (Rust panics otherwise)
SliceOk(s, a) == a >= 0 /\ a <= Len(s)

OccursAt(s, p, i) == i + Len(p) <= Len(s) /\ SubSeq(s, i + 1, i + Len(p)) = p

StartsWith(s, p) == OccursAt(s, p, 0)

EndsWith(s, p) == Len(p) <= Len(s) /\ OccursAt(s, p, Len(s) - Len(p))

\* str::find: offset of the first occurrence, NotFound for None
RECURSIVE FindFrom(_, _, _)
FindFrom(s, p, i) ==
    IF i + Len(p) > Len(s) THEN NotFound
    ELSE IF OccursAt(s, p, i) THEN i
    ELSE FindFrom(s, p, i + 1)

Find(s, p) == FindFrom(s, p, 0)

Contains(s, p) == Find(s, p) # NotFound

\* str::split(ch): the fragments between occurrences of ch (never empty list)
RECURSIVE Split(_, _)
Split(s, ch) ==
    LET pos == Find(s, ch)
    IN  IF pos = NotFound
        THEN << s >>
        ELSE << Slice(s, 0, pos) >> \o Split(SliceFrom(s, pos + Len(ch)), ch)

\* str::trim_end_matches(ch)
RECURSIVE TrimEndMatches(_, _)
TrimEndMatches(s, ch) ==
    IF Len(s) > 0 /\ EndsWith(s, ch)
    THEN TrimEndMatches(Slice(s, 0, Len(s) - Len(ch)), ch)
    ELSE s

(***************************************************************************)
(* Outcome of a matcher: it returns true, returns false, or panics.        *)
(***************************************************************************)
MATCH == "match"
MISS == "miss"
PANIC == "panic"

Bool3(b) == IF b THEN MATCH ELSE MISS

(***************************************************************************)
(* FilterRule and parse_rule.                                              *)
(***************************************************************************)
Rule(kind, text) == [kind |-> kind, text |-> text]

parse_rule(raw_rule) ==
    IF StartsWith(raw_rule, "@@")
    THEN Rule("Exception", SliceFrom(raw_rule, 2))
    ELSE IF StartsWith(raw_rule, "||")
    THEN LET stripped == SliceFrom(raw_rule, 2)
         IN  IF EndsWith(stripped, "^")
             THEN Rule("SubdomainPattern", Slice(stripped, 0, Len(stripped) - 1))
             ELSE Rule("Pattern", raw_rule)
    ELSE IF Contains(raw_rule, "*")
            \/ (StartsWith(raw_rule, "/") /\ EndsWith(raw_rule, "/*"))
    THEN Rule("Pattern", raw_rule)
    ELSE Rule("Domain", raw_rule)

RECURSIVE MapParseRule(_)
MapParseRule(lines) ==
    IF lines = << >> THEN << >>
    ELSE << parse_rule(Head(lines)) >> \o MapParseRule(Tail(lines))

(***************************************************************************)
(* The engine's compiled state: rules, domain_matcher, pattern_info.       *)
(* The automaton is modelled by the pattern list it was built from.        *)
(***************************************************************************)
NoMatcher == [some |-> FALSE, patterns |-> << >>]

PatternInfo(pattern, rule_type) == [pattern |-> pattern, rule_type |-> rule_type]

Engine(rules, matcher, info) ==
    [rules |-> rules, domain_matcher |-> matcher, pattern_info |-> info]

\* the loop of compile_patterns: a PatternInfo per Domain / SubdomainPattern rule
RECURSIVE LiteralInfo(_)
LiteralInfo(rules) ==
    IF rules = << >> THEN << >>
    ELSE LET rule == Head(rules)
             rest == LiteralInfo(Tail(rules))
         IN  IF rule.kind = "Domain"
             THEN << PatternInfo(rule.text, "Domain") >> \o rest
             ELSE IF rule.kind = "SubdomainPattern"
             THEN << PatternInfo(rule.text, "Subdomain") >> \o rest
             ELSE rest

\* variant: the SubdomainPattern arm feeds the automaton but not pattern_info
RECURSIVE DomainInfoOnly(_)
DomainInfoOnly(rules) ==
    IF rules = << >> THEN << >>
    ELSE IF Head(rules).kind = "Domain"
    THEN << PatternInfo(Head(rules).text, "Domain") >> \o DomainInfoOnly(Tail(rules))
    ELSE DomainInfoOnly(Tail(rules))

compile_patterns_short_info(e) ==
    LET info == LiteralInfo(e.rules)
        patterns == [i \in 1..Len(info) |-> info[i].pattern]
    IN  Engine(e.rules,
               IF patterns # << >>
               THEN [some |-> TRUE, patterns |-> patterns]
               ELSE e.domain_matcher,
               DomainInfoOnly(e.rules))

\* variant: pattern_info is not cleared before it is filled again
compile_patterns_without_clear(e) ==
    LET info == LiteralInfo(e.rules)
        patterns == [i \in 1..Len(info) |-> info[i].pattern]
    IN  Engine(e.rules,
               IF patterns # << >>
               THEN [some |-> TRUE, patterns |-> patterns]
               ELSE e.domain_matcher,
               e.pattern_info \o info)

\* variant: the automaton is built also from an empty pattern list
compile_patterns_always_building(e) ==
    LET info == LiteralInfo(e.rules)
        patterns == [i \in 1..Len(info) |-> info[i].pattern]
    IN  Engine(e.rules, [some |-> TRUE, patterns |-> patterns], info)

compile_patterns(e) ==
    LET info == LiteralInfo(e.rules)
        patterns == [i \in 1..Len(info) |-> info[i].pattern]
    IN  Engine(e.rules,
               IF patterns # << >>
               THEN [some |-> TRUE, patterns |-> patterns]
               ELSE e.domain_matcher,
               info)

\* new_with_patterns / from_filter_list after parsing: classify, then compile
new_with_patterns(lines) ==
    compile_patterns(Engine(MapParseRule(lines), NoMatcher, << >>))

\* variant: a literal rule is also handed to the automaton, without its PatternInfo
add_rule_feeding_automaton(e, rule) ==
    LET parsed_rule == parse_rule(rule)
    IN  Engine(Append(e.rules, parsed_rule),
               IF parsed_rule.kind \in { "Domain", "SubdomainPattern" }
               THEN [some |-> TRUE,
                     patterns |-> Append(e.domain_matcher.patterns, parsed_rule.text)]
               ELSE e.domain_matcher,
               e.pattern_info)

add_rule(e, rule) ==
    Engine(Append(e.rules, parse_rule(rule)), e.domain_matcher, e.pattern_info)

build_domain_matcher(e) == compile_patterns(e)

(***************************************************************************)
(* AhoCorasick::new(patterns) + find_iter(url): standard match semantics,  *)
(* non-overlapping iteration.  A search from offset `at` reports the       *)
(* occurrence that ends first; among those the longest (the automaton's    *)
(* deepest state), and for equal texts the lowest pattern id.              *)
(***************************************************************************)
AcCandidates(patterns, url, at) ==
    { c \in (1..Len(patterns)) \X (at..Len(url)) : OccursAt(url, patterns[c[1]], c[2]) }

AcEnd(patterns, c) == c[2] + Len(patterns[c[1]])

AcBefore(patterns, c, d) ==
    \/ AcEnd(patterns, c) < AcEnd(patterns, d)
    \/ AcEnd(patterns, c) = AcEnd(patterns, d) /\ c[2] < d[2]
    \/ AcEnd(patterns, c) = AcEnd(patterns, d) /\ c[2] = d[2] /\ c[1] <= d[1]

NoMatch == [pattern |-> NotFound, start |-> NotFound, end |-> NotFound]

AcFind(patterns, url, at) ==
    LET cands == AcCandidates(patterns, url, at)
    IN  IF cands = {} THEN NoMatch
        ELSE LET c == CHOOSE x \in cands : \A y \in cands : AcBefore(patterns, x, y)
             IN  [pattern |-> c[1] - 1, start |-> c[2], end |-> AcEnd(patterns, c)]

(***************************************************************************)
(* Matchers.                                                               *)
(***************************************************************************)
\* variant: the host test without the "." boundary
matches_subdomain_no_boundary(url, domain) ==
    LET start == Find(url, "://")
    IN  IF start = NotFound THEN MISS
        ELSE LET url_host == Head(Split(SliceFrom(url, start + 3), "/"))
             IN  Bool3(url_host = domain \/ EndsWith(url_host, domain))

matches_subdomain(url, domain) ==
    LET start == Find(url, "://")
    IN  IF start = NotFound THEN MISS
        ELSE IF ~SliceOk(url, start + 3) THEN PANIC
        ELSE LET url_after_protocol == SliceFrom(url, start + 3)
                 url_host == Head(Split(url_after_protocol, "/"))
             IN  Bool3(url_host = domain \/ EndsWith(url_host, "." \o domain))

RECURSIVE WildcardLoop(_, _, _, _, _)
WildcardLoop(url, pattern, pattern_parts, i, current_pos) ==
    IF i >= Len(pattern_parts) THEN MATCH
    ELSE LET part == pattern_parts[i + 1]
         IN  IF part = ""
             THEN WildcardLoop(url, pattern, pattern_parts, i + 1, current_pos)
             ELSE IF i = 0 /\ ~StartsWith(pattern, "*")
             THEN IF ~StartsWith(url, part) THEN MISS
                  ELSE WildcardLoop(url, pattern, pattern_parts, i + 1, Len(part))
             ELSE IF i = Len(pattern_parts) - 1 /\ ~EndsWith(pattern, "*")
             THEN IF ~SliceOk(url, current_pos) THEN PANIC
                  ELSE IF ~EndsWith(SliceFrom(url, current_pos), part) THEN MISS
                  ELSE WildcardLoop(url, pattern, pattern_parts, i + 1, current_pos)
             ELSE IF ~SliceOk(url, current_pos) THEN PANIC
                  ELSE LET pos == Find(SliceFrom(url, current_pos), part)
                       IN  IF pos = NotFound THEN MISS
                           ELSE WildcardLoop(url, pattern, pattern_parts, i + 1,
                                             current_pos + pos + Len(part))

\* variant: the first fragment is searched for like a middle fragment
matches_wildcard_pattern_unanchored(url, pattern) ==
    LET unanchored == "*" \o pattern
    IN  WildcardLoop(url, unanchored, Split(unanchored, "*"), 0, 0)

matches_wildcard_pattern(url, pattern) ==
    LET pattern_parts == Split(pattern, "*")
    IN  IF pattern_parts = << >> THEN MATCH
        ELSE WildcardLoop(url, pattern, pattern_parts, 0, 0)

matches_subdomain_pattern(url, pattern_without_prefix) ==
    IF EndsWith(pattern_without_prefix, "^")
    THEN matches_subdomain(url, Slice(pattern_without_prefix, 0,
                                      Len(pattern_without_prefix) - 1))
    ELSE LET slash_pos == Find(pattern_without_prefix, "/")
         IN  IF slash_pos # NotFound
             THEN LET domain == Slice(pattern_without_prefix, 0, slash_pos)
                      path_pattern == SliceFrom(pattern_without_prefix, slash_pos)
                      host_ok == matches_subdomain(url, domain)
                  IN  IF host_ok # MATCH THEN host_ok
                      ELSE LET url_domain_end == Find(url, domain)
                           IN  IF url_domain_end = NotFound THEN MISS
                               ELSE IF ~SliceOk(url, url_domain_end + Len(domain))
                               THEN PANIC
                               ELSE LET url_after_domain ==
                                            SliceFrom(url, url_domain_end + Len(domain))
                                    IN  IF Contains(path_pattern, "*")
                                        THEN matches_wildcard_pattern(url_after_domain,
                                                                      path_pattern)
                                        ELSE Bool3(StartsWith(url_after_domain,
                                                              path_pattern))
             ELSE matches_subdomain(url, pattern_without_prefix)

matches_domain_path_pattern(url, pattern, slash_pos) ==
    LET domain_part == Slice(pattern, 0, slash_pos)
        path_part == SliceFrom(pattern, slash_pos)
    IN  IF ~Contains(url, domain_part) THEN MISS
        ELSE LET pos == Find(url, domain_part)
             IN  IF ~SliceOk(url, pos + Len(domain_part)) THEN PANIC
                 ELSE LET url_after_domain == SliceFrom(url, pos + Len(domain_part))
                      IN  Bool3(path_part = "/*"
                                \/ StartsWith(url_after_domain,
                                              TrimEndMatches(path_part, "*")))

matches_exception_pattern(url, pattern) ==
    IF StartsWith(pattern, "||")
    THEN matches_subdomain_pattern(url, SliceFrom(pattern, 2))
    ELSE IF Contains(pattern, "*")
    THEN matches_wildcard_pattern(url, pattern)
    ELSE IF Find(pattern, "/") # NotFound
    THEN matches_domain_path_pattern(url, pattern, Find(pattern, "/"))
    ELSE Bool3(Contains(url, pattern))

(***************************************************************************)
(* BlockDecision and should_block.  reason is << >> for None and << r >>   *)
(* for Some(r).  An outcome also tells whether the call panicked and       *)
(* whether it reached a metrics.record_request call.                       *)
(***************************************************************************)
None == << >>
Some(x) == << x >>

Outcome(panicked, block, reason, recorded) ==
    [panicked |-> panicked, should_block |-> block, reason |-> reason,
     recorded |-> recorded]

Panicked == Outcome(TRUE, FALSE, None, FALSE)

\* the for loop over matcher.find_iter(url), resumed at offset `at`
RECURSIVE AcLoop(_, _, _, _)
AcLoop(e, url, at, last_match_end) ==
    IF at > Len(url) THEN [tag |-> "none"]
    ELSE LET m == AcFind(e.domain_matcher.patterns, url, at)
         IN  IF m = NoMatch THEN [tag |-> "none"]
             ELSE IF m.start = m.end /\ m.end = last_match_end
             THEN AcLoop(e, url, at + 1, NotFound)
             ELSE IF m.pattern >= Len(e.pattern_info) THEN [tag |-> "panic"]
             ELSE LET pattern_info == e.pattern_info[m.pattern + 1]
                  IN  IF pattern_info.rule_type = "Subdomain"
                      THEN LET sub == matches_subdomain(url, pattern_info.pattern)
                           IN  IF sub = PANIC THEN [tag |-> "panic"]
                               ELSE IF sub = MATCH
                               THEN [tag |-> "some",
                                     reason |-> "Matched subdomain: "
                                                \o pattern_info.pattern]
                               ELSE AcLoop(e, url, m.end, m.end)
                      ELSE [tag |-> "some",
                            reason |-> "Matched ad domain: " \o pattern_info.pattern]

check_aho_corasick_matches(e, url) ==
    IF ~e.domain_matcher.some THEN [tag |-> "none"]
    ELSE AcLoop(e, url, 0, NotFound)

\* third pass: the Pattern rules, in registration order
RECURSIVE WildcardPass(_, _, _)
WildcardPass(e, url, i) ==
    IF i > Len(e.rules) THEN Outcome(FALSE, FALSE, None, TRUE)
    ELSE LET rule == e.rules[i]
         IN  IF rule.kind # "Pattern" THEN WildcardPass(e, url, i + 1)
             ELSE LET w == matches_wildcard_pattern(url, rule.text)
                  IN  IF w = PANIC THEN Panicked
                      ELSE IF w = MATCH
                      THEN Outcome(FALSE, TRUE,
                                   Some("Matched pattern: " \o rule.text), TRUE)
                      ELSE WildcardPass(e, url, i + 1)

\* second pass, then the third
BlockPasses(e, url) ==
    LET ac == check_aho_corasick_matches(e, url)
    IN  IF ac.tag = "panic" THEN Panicked
        ELSE IF ac.tag = "some" THEN Outcome(FALSE, TRUE, Some(ac.reason), TRUE)
        ELSE WildcardPass(e, url, 1)

\* first pass: the Exception rules, in registration order.  The index of the
\* first exception rule that matches url, 0 when none does, PanicIndex on a panic
PanicIndex == 0 - 1

RECURSIVE ExceptionPass(_, _, _)
ExceptionPass(e, url, i) ==
    IF i > Len(e.rules) THEN 0
    ELSE LET rule == e.rules[i]
         IN  IF rule.kind # "Exception" THEN ExceptionPass(e, url, i + 1)
             ELSE LET x == matches_exception_pattern(url, rule.text)
                  IN  IF x = PANIC THEN PanicIndex
                      ELSE IF x = MATCH THEN i
                      ELSE ExceptionPass(e, url, i + 1)

\* variant: the exception branch returns no reason
Whitelisted_without_reason(e, i) == Outcome(FALSE, FALSE, None, FALSE)

\* the decision returned when exception rule i matched
Whitelisted(e, i) ==
    Outcome(FALSE, FALSE, Some("Whitelisted by exception: " \o e.rules[i].text), FALSE)

\* should_block with its first pass run on engine x and the later passes on engine e
\* (x = e in every call of the program: the engine is not replaced during a call)
ShouldBlockOn(x, e, url) ==
    LET hit == ExceptionPass(x, url, 1)
    IN  IF hit = PanicIndex THEN Panicked
        ELSE IF hit > 0 THEN Whitelisted(x, hit)
        ELSE BlockPasses(e, url)

\* variant: the exception pass left out
should_block_without_exceptions(e, url) == BlockPasses(e, url)

should_block(e, url) == ShouldBlockOn(e, e, url)

(***************************************************************************)
(* PerformanceMetrics: the atomic counters and the steps of                *)
(* record_request, each one atomic operation on one counter.               *)
(***************************************************************************)
\* u64::MAX, the "no minimum yet" value: stands above every latency of the model
U64_MAX == 2147483647

NewMetrics ==
    [total_requests |-> 0, blocked_requests |-> 0, allowed_requests |-> 0,
     total_processing_time_ns |-> 0, avg_processing_time_ns |-> 0,
     max_processing_time_ns |-> 0, min_processing_time_ns |-> U64_MAX,
     filter_count |-> 0]

set_filter_count(m, count) == [m EXCEPT !.filter_count = count]

FetchAddTotal(m) == [m EXCEPT !.total_requests = @ + 1]

\* variant: the increment of allowed_requests is lost
FetchAddOutcome_no_allowed(m, blocked) ==
    IF blocked
    THEN [m EXCEPT !.blocked_requests = @ + 1]
    ELSE m

FetchAddOutcome(m, blocked) ==
    IF blocked
    THEN [m EXCEPT !.blocked_requests = @ + 1]
    ELSE [m EXCEPT !.allowed_requests = @ + 1]

FetchAddTime(m, time_ns) == [m EXCEPT !.total_processing_time_ns = @ + time_ns]

FetchMax(m, time_ns) ==
    [m EXCEPT !.max_processing_time_ns = IF time_ns > @ THEN time_ns ELSE @]

\* the compare-exchange loop on min_processing_time_ns, run without interference
UpdateMin(m, time_ns) ==
    IF time_ns >= m.min_processing_time_ns THEN m
    ELSE [m EXCEPT !.min_processing_time_ns = time_ns]

\* the average computed from the two values loaded
StoreAvg(m, total_requests, total_time) ==
    IF total_requests > 0
    THEN [m EXCEPT !.avg_processing_time_ns = total_time \div total_requests]
    ELSE m

\* record_request run by a single thread, start to end
record_request(m, blocked, time_ns) ==
    LET m1 == FetchAddTotal(m)
        m2 == FetchAddOutcome(m1, blocked)
        m3 == FetchAddTime(m2, time_ns)
        m4 == FetchMax(m3, time_ns)
        m5 == UpdateMin(m4, time_ns)
    IN  StoreAvg(m5, m5.total_requests, m5.total_processing_time_ns)

\* snapshot(): a field-by-field copy; the unset minimum reads as 0
snapshot(m) ==
    [m EXCEPT !.min_processing_time_ns = IF @ = U64_MAX THEN 0 ELSE @]

(***************************************************************************)
(* FilterListLoader::parse_filter_list and the engine constructors that    *)
(* use it.                                                                 *)
(***************************************************************************)
Whitespace == { " ", "\t", "\r" }

RECURSIVE TrimStart(_)
TrimStart(s) ==
    IF Len(s) > 0 /\ Slice(s, 0, 1) \in Whitespace THEN TrimStart(SliceFrom(s, 1)) ELSE s

RECURSIVE TrimEnd(_)
TrimEnd(s) ==
    IF Len(s) > 0 /\ SliceFrom(s, Len(s) - 1) \in Whitespace
    THEN TrimEnd(Slice(s, 0, Len(s) - 1))
    ELSE s

\* str::trim
Trim(s) == TrimEnd(TrimStart(s))

\* str::lines: the pieces between "\n"; no empty piece after a final "\n"
Lines(content) ==
    LET parts == Split(content, "\n")
    IN  IF parts[Len(parts)] = "" THEN SubSeq(parts, 1, Len(parts) - 1) ELSE parts

SkippedLine(trimmed) ==
    \/ trimmed = ""
    \/ StartsWith(trimmed, "!")
    \/ StartsWith(trimmed, "[")
    \/ StartsWith(trimmed, "!!!")
    \/ StartsWith(trimmed, "##")
    \/ Contains(trimmed, "##")

RECURSIVE KeepRules(_)
KeepRules(lines) ==
    IF lines = << >> THEN << >>
    ELSE LET trimmed == Trim(Head(lines))
         IN  IF SkippedLine(trimmed) THEN KeepRules(Tail(lines))
             ELSE << trimmed >> \o KeepRules(Tail(lines))

parse_filter_list(content) == KeepRules(Lines(content))

\* FilterEngine::from_filter_list: parse, classify, compile (it returns Ok always,
\* parse_filter_list having no error path)
from_filter_list(filter_list) == new_with_patterns(parse_filter_list(filter_list))

\* the loop of load_easylist_rules
RECURSIVE AddRules(_, _)
AddRules(e, rules) ==
    IF rules = << >> THEN e ELSE AddRules(add_rule(e, Head(rules)), Tail(rules))

\* FilterEngine::load_easylist_rules: parse, add every rule, rebuild the matcher
load_easylist_rules(e, content) ==
    build_domain_matcher(AddRules(e, parse_filter_list(content)))

new_with_defaults ==
    compile_patterns(Engine(<< Rule("Domain", "doubleclick.net"),
                               Rule("Domain", "googleadservices.com"),
                               Rule("Domain", "googlesyndication.com"),
                               Rule("Domain", "facebook.com/tr"),
                               Rule("Domain", "amazon-adsystem.com") >>,
                            NoMatcher, << >>))

(***************************************************************************)
(* AdBlockCore: the engine (with its metrics) and the statistics counters  *)
(* that adblock_engine_get_stats reports.                                  *)
(***************************************************************************)
\* StatisticsConfig::default
DefaultMaxRecentEvents == 1000

StatisticsConfig(max_recent_events) == [max_recent_events |-> max_recent_events]

\* Statistics::with_config: the given config, every other field its default
Statistics_with_config(config) ==
    [blocked_count |-> 0, allowed_count |-> 0, data_saved |-> 0,
     domain_stats |-> << >>, recent_events |-> << >>, config |-> config]

\* Statistics::new
NewStatistics == Statistics_with_config(StatisticsConfig(DefaultMaxRecentEvents))

\* a BlockEvent without its timestamp
BlockEvent(domain, blocked, size) == [domain |-> domain, blocked |-> blocked, size |-> size]

\* Vec::remove(0)
RemoveFirst(v) == SubSeq(v, 2, Len(v))

\* variant: add_event only pushes
add_event_unbounded(stats, event) ==
    [stats EXCEPT !.recent_events = Append(stats.recent_events, event)]

\* Statistics::add_event: push, then drop the oldest event when over the limit
add_event(stats, event) ==
    LET pushed == Append(stats.recent_events, event)
    IN  [stats EXCEPT !.recent_events =
            IF Len(pushed) > stats.config.max_recent_events
            THEN RemoveFirst(pushed)
            ELSE pushed]

\* domain_stats.entry(domain).or_default(), then count += 1, data_saved += size
BumpDomain(domain_stats, domain, size) ==
    LET found == { i \in 1..Len(domain_stats) : domain_stats[i].domain = domain }
    IN  IF found = {}
        THEN Append(domain_stats, [domain |-> domain, count |-> 1, data_saved |-> size])
        ELSE [i \in 1..Len(domain_stats) |->
                IF i \in found
                THEN [domain_stats[i] EXCEPT !.count = @ + 1, !.data_saved = @ + size]
                ELSE domain_stats[i]]

\* a variant of record_allowed that also counts the size as saved
record_allowed_saving(stats, domain, size) ==
    add_event([stats EXCEPT !.allowed_count = @ + 1, !.data_saved = @ + size],
              BlockEvent(domain, FALSE, size))

record_blocked(stats, domain, size) ==
    add_event([stats EXCEPT !.blocked_count = @ + 1,
                            !.data_saved = @ + size,
                            !.domain_stats = BumpDomain(@, domain, size)],
              BlockEvent(domain, TRUE, size))

record_allowed(stats, domain, size) ==
    add_event([stats EXCEPT !.allowed_count = @ + 1], BlockEvent(domain, FALSE, size))

total_blocked(stats) == stats.blocked_count

total_allowed(stats) == stats.allowed_count

data_saved(stats) == stats.data_saved

Reverse(v) == [i \in 1..Len(v) |-> v[Len(v) + 1 - i]]

\* usize::saturating_sub
saturating_sub(a, b) == IF a >= b THEN a - b ELSE 0

\* a variant of recent_events that keeps the recording order
recent_events_in_order(stats, limit) ==
    LET start == saturating_sub(Len(stats.recent_events), limit)
    IN  SubSeq(stats.recent_events, start + 1, Len(stats.recent_events))

\* Statistics::recent_events
recent_events(stats, limit) ==
    LET start == saturating_sub(Len(stats.recent_events), limit)
    IN  Reverse(SubSeq(stats.recent_events, start + 1, Len(stats.recent_events)))

\* utils::extract_domain
extract_domain(url) ==
    LET protocol_end == Find(url, "://")
    IN  IF protocol_end # NotFound
        THEN LET after_protocol == SliceFrom(url, protocol_end + 3)
                 path_start == Find(after_protocol, "/")
             IN  IF path_start # NotFound
                 THEN Slice(after_protocol, 0, path_start)
                 ELSE after_protocol
        ELSE LET path_start == Find(url, "/")
             IN  IF path_start # NotFound THEN Slice(url, 0, path_start) ELSE url

AdBlockCore(e) ==
    [engine |-> e, metrics |-> set_filter_count(NewMetrics, Len(e.rules)),
     statistics |-> NewStatistics]

\* AdBlockCore::new(Config::default()): the default rules
AdBlockCore_new == AdBlockCore(new_with_defaults)

AdBlockCore_from_filter_list(filter_list) == AdBlockCore(from_filter_list(filter_list))

AdBlockCore_with_patterns(patterns) == AdBlockCore(new_with_patterns(patterns))

\* check_url once the decision o is known: the engine's metrics, then track_decision
track_decision(c, o, domain, size, time_ns) ==
    [c EXCEPT !.metrics = IF o.recorded
                          THEN record_request(@, o.should_block, time_ns)
                          ELSE @,
              !.statistics = IF o.should_block
                             THEN record_blocked(@, domain, size)
                             ELSE record_allowed(@, domain, size)]

\* Mutex::lock succeeds only on a mutex nobody holds
can_lock_unguarded(holder) == TRUE

can_lock(holder) == holder = "free"

(***************************************************************************)
(* State.                                                                  *)
(***************************************************************************)
VARIABLES
    engine,     \* the FilterEngine: rules, domain_matcher, pattern_info
    metrics,    \* the engine's PerformanceMetrics
    calls,      \* number of should_block calls made so far
    last,       \* the last operation: its name, and for should_block the url and outcome
    threads,    \* per thread sharing the metrics: its place in record_request, its locals
    issued,     \* the record_request calls begun so far: how many, blocked, allowed, time
    core,       \* the AdBlockCore inside the AdBlockEngine handle's mutex
    lock,       \* the holder of that mutex, "free" when nobody holds it
    ffi,        \* per caller of the C interface: its place in the call, its locals
    ffi_log,    \* the C calls begun and completed so far, and the last one completed
    wildcard,   \* a call of matches_wildcard_pattern: url, pattern, result
    loader,     \* a run of from_filter_list: the text, the lines kept, the rules made
    matcher,    \* a RuleMatcher, the lines it was fed, and its last should_block call
    stats,      \* an AdBlockCore's engine and Statistics, and the events recorded so far
    updater,    \* a FilterUpdater, its cache directory, the clock, its last call
    css,        \* a call of get_css_rules: content, domain, result
    exception,  \* a call of matches_exception_pattern: url, pattern, result
    optimizer   \* a MemoryOptimizer and its last call

vars == << engine, metrics, calls, last, threads, issued, core, lock, ffi, ffi_log,
           wildcard, loader, matcher, stats, updater, css, exception, optimizer >>

svcVars == << stats, updater, css, exception, optimizer >>

libVars == << wildcard, loader, matcher >>

engineVars == << engine, calls, last >>

recorderVars == << threads, issued >>

ffiVars == << core, lock, ffi, ffi_log >>

(***************************************************************************)
(* Inputs of the engine specification.                                     *)
(***************************************************************************)
RuleLines ==
    { "||ads.com^", "@@||ads.com/acceptable/*", "||sub.ads^", "ads.com",
      "*ads.com/*x" }

\* the filter list texts passed to load_easylist_rules
EasylistContents ==
    { "||ads.com^", "! title\n||sub.ads^\nads.com\n",
      "@@||ads.com/acceptable/*\n*ads.com/*x", "[Adblock Plus 2.0]\n! nothing\n",
      "ads.com\n||ads.com^\n||sub.ads^" }

Urls ==
    { "https://ads.com/banner", "https://ads.com/acceptable/x",
      "https://sub.ads.com/", "https://a.b.ads.com/ads/1", "https://xads.com/",
      "https://ads.com.com/", "https://x.com/ads.com", "ads.com", "" }

Latencies == 1..MaxLatency

\* timer.elapsed() as seen by the single-threaded engine specification
ElapsedTimes == { 1 }

SeqsUpTo(S, n) == UNION { [1..k -> S] : k \in 0..n }

NoOutcome == Outcome(FALSE, FALSE, None, FALSE)

Last(op, url, outcome) == [op |-> op, url |-> url, outcome |-> outcome]

(***************************************************************************)
(* Spec: one engine, used by one thread.                                   *)
(***************************************************************************)
\* the two threads of test_concurrent_access: the spawning one and the spawned one
Threads == { "main", "spawned" }

IdleThread ==
    [pc |-> "idle", blocked |-> FALSE, time_ns |-> 0, current_min |-> 0,
     total_requests |-> 0, total_time |-> 0]

NoneIssued == [n |-> 0, blocked |-> 0, allowed |-> 0, time |-> 0, overlapped |-> FALSE]

RecorderIdle ==
    /\ threads = [t \in Threads |-> IdleThread]
    /\ issued = NoneIssued

\* the callers of the C interface
Callers == { "c1", "c2" }

IdleCaller == [pc |-> "idle", op |-> "", arg |-> "", first |-> Engine(<< >>, NoMatcher, << >>),
               seen |-> {}]

NoCall == [op |-> "", arg |-> "", ret |-> FALSE, seen |-> {}]

\* nothing called yet on the free-standing parts of the library
NoWildcardCall == [url |-> "", pattern |-> "", result |-> "pending"]

NoLoad == [stage |-> "idle", filter_list |-> "", raw_rules |-> << >>, rules |-> << >>]

RuleMatcher_new ==
    [block_rules |-> << >>, allow_rules |-> << >>, element_hide_rules |-> << >>]

NoMatcherCall == [lines |-> << >>, rm |-> RuleMatcher_new, called |-> FALSE, url |-> "",
                  options |-> [domain |-> None, content_type |-> "Other",
                               is_third_party |-> FALSE],
                  result |-> FALSE]

LibIdle ==
    /\ wildcard = NoWildcardCall
    /\ loader = NoLoad
    /\ matcher = NoMatcherCall

NoStatsCall == [op |-> "new", arg |-> "", size |-> 0, ret |-> << >>]

NoStats == [kind |-> "none", core |-> AdBlockCore_with_patterns(<< >>),
            history |-> << >>, call |-> NoStatsCall]

NoUpdater == [made |-> FALSE]

NoCssCall == [content |-> "", domain |-> "", result |-> << >>, called |-> FALSE]

NoExceptionCall == [url |-> "", pattern |-> "", result |-> "pending"]

NoOptimizer == [made |-> FALSE]

SvcIdle ==
    /\ stats = NoStats
    /\ updater = NoUpdater
    /\ css = NoCssCall
    /\ exception = NoExceptionCall
    /\ optimizer = NoOptimizer

\* adblock_engine_create
\* AdBlockCore::get_statistics: a copy of the statistics
get_statistics(c) == c.statistics

\* the text adblock_engine_get_stats formats from a Statistics
StatsJson(s) ==
    "{\"blocked_count\":" \o ToString(s.blocked_count)
        \o ",\"allowed_count\":" \o ToString(s.allowed_count)
        \o ",\"data_saved\":" \o ToString(s.data_saved) \o "}"

FfiIdle ==
    /\ core = AdBlockCore_new
    /\ lock = "free"
    /\ ffi = [t \in Callers |-> IdleCaller]
    /\ ffi_log = [begun |-> 0, completed |-> 0, last |-> NoCall, added |-> {},
                  json |-> "", before |-> ""]

Init ==
    /\ \E lines \in SeqsUpTo(RuleLines, MaxRules) :
          engine = new_with_patterns(lines)
    /\ metrics = set_filter_count(NewMetrics, Len(engine.rules))
    /\ calls = 0
    /\ last = Last("new", "", NoOutcome)
    /\ RecorderIdle
    /\ FfiIdle
    /\ SvcIdle
    /\ LibIdle

AddRule(rule) ==
    /\ Len(engine.rules) < MaxRules
    /\ engine' = add_rule(engine, rule)
    /\ last' = Last("add_rule", "", NoOutcome)
    /\ UNCHANGED << metrics, calls, recorderVars, ffiVars, libVars, svcVars >>

BuildDomainMatcher ==
    /\ engine' = build_domain_matcher(engine)
    /\ metrics' = set_filter_count(metrics, Len(engine.rules))
    /\ last' = Last("build_domain_matcher", "", NoOutcome)
    /\ UNCHANGED << calls, recorderVars, ffiVars, libVars, svcVars >>

LoadEasylistRules(content) ==
    /\ Len(engine.rules) + Len(parse_filter_list(content)) <= MaxRules
    /\ engine' = load_easylist_rules(engine, content)
    /\ metrics' = set_filter_count(metrics, Len(engine'.rules))
    /\ last' = Last("load_easylist_rules", "", NoOutcome)
    /\ UNCHANGED << calls, recorderVars, ffiVars, libVars, svcVars >>

\* variant: should_block compiles the rules it finds before it answers
ShouldBlock_recompiling(url) ==
    /\ calls < MaxCalls
    /\ engine' = compile_patterns(engine)
    /\ LET o == should_block(engine', url)
       IN  /\ last' = Last("should_block", url, o)
           /\ IF o.recorded
              THEN \E time_ns \in ElapsedTimes :
                      metrics' = record_request(metrics, o.should_block, time_ns)
              ELSE metrics' = metrics
    /\ calls' = calls + 1
    /\ UNCHANGED << recorderVars, ffiVars, libVars, svcVars >>

ShouldBlock(url) ==
    /\ calls < MaxCalls
    /\ LET o == should_block(engine, url)
       IN  /\ last' = Last("should_block", url, o)
           /\ IF o.recorded
              THEN \E time_ns \in ElapsedTimes :
                      metrics' = record_request(metrics, o.should_block, time_ns)
              ELSE metrics' = metrics
    /\ calls' = calls + 1
    /\ UNCHANGED << engine, recorderVars, ffiVars, libVars, svcVars >>

Next ==
    \/ \E rule \in RuleLines : AddRule(rule)
    \/ BuildDomainMatcher
    \/ \E content \in EasylistContents : LoadEasylistRules(content)
    \/ \E url \in Urls : ShouldBlock(url)

Spec == Init /\ [][Next]_vars

(***************************************************************************)
(* SpecMetrics: one PerformanceMetrics shared by the threads (clones of    *)
(* one Arc), each running record_request calls; every atomic operation of  *)
(* record_request is one step.                                             *)
(***************************************************************************)
InitMetrics ==
    /\ engine = new_with_patterns(<< >>)
    /\ metrics = NewMetrics
    /\ calls = 0
    /\ last = Last("new", "", NoOutcome)
    /\ RecorderIdle
    /\ FfiIdle
    /\ SvcIdle
    /\ LibIdle

At(t, pc) == threads[t].pc = pc

Goto(t, pc) == threads' = [threads EXCEPT ![t].pc = pc]

\* line 69-71: the call begins; total_requests.fetch_add(1)
RecordBegin(t, blocked, time_ns) ==
    /\ At(t, "idle")
    /\ issued.n < MaxCalls
    /\ metrics' = FetchAddTotal(metrics)
    /\ threads' = [threads EXCEPT ![t] =
                      [IdleThread EXCEPT !.pc = "outcome", !.blocked = blocked,
                                         !.time_ns = time_ns]]
    /\ issued' = [n |-> issued.n + 1,
                  blocked |-> issued.blocked + (IF blocked THEN 1 ELSE 0),
                  allowed |-> issued.allowed + (IF blocked THEN 0 ELSE 1),
                  time |-> issued.time + time_ns,
                  overlapped |-> issued.overlapped
                                 \/ \E u \in Threads \ {t} : ~At(u, "idle")]
    /\ UNCHANGED << engineVars, ffiVars, libVars, svcVars >>

\* line 73-77
RecordOutcome(t) ==
    /\ At(t, "outcome")
    /\ metrics' = FetchAddOutcome(metrics, threads[t].blocked)
    /\ Goto(t, "time")
    /\ UNCHANGED << engineVars, issued, ffiVars, libVars, svcVars >>

\* line 80
RecordTime(t) ==
    /\ At(t, "time")
    /\ metrics' = FetchAddTime(metrics, threads[t].time_ns)
    /\ Goto(t, "max")
    /\ UNCHANGED << engineVars, issued, ffiVars, libVars, svcVars >>

\* line 83
RecordMax(t) ==
    /\ At(t, "max")
    /\ metrics' = FetchMax(metrics, threads[t].time_ns)
    /\ Goto(t, "load_min")
    /\ UNCHANGED << engineVars, issued, ffiVars, libVars, svcVars >>

\* line 87-90: load the minimum; leave the loop when it is not above time_ns
LoadMin(t) ==
    /\ At(t, "load_min")
    /\ threads' = [threads EXCEPT
                      ![t].current_min = metrics.min_processing_time_ns,
                      ![t].pc = IF threads[t].time_ns >= metrics.min_processing_time_ns
                                THEN "load_total" ELSE "cas_min"]
    /\ UNCHANGED << engineVars, metrics, issued, ffiVars, libVars, svcVars >>

\* line 91-96: compare_exchange_weak succeeds
CasMinOk(t) ==
    /\ At(t, "cas_min")
    /\ metrics.min_processing_time_ns = threads[t].current_min
    /\ metrics' = [metrics EXCEPT !.min_processing_time_ns = threads[t].time_ns]
    /\ Goto(t, "load_total")
    /\ UNCHANGED << engineVars, issued, ffiVars, libVars, svcVars >>

\* line 91-96: compare_exchange_weak fails (the value changed, or spuriously)
CasMinFail(t) ==
    /\ At(t, "cas_min")
    /\ Goto(t, "load_min")
    /\ UNCHANGED << engineVars, metrics, issued, ffiVars, libVars, svcVars >>

\* line 100
LoadTotal(t) ==
    /\ At(t, "load_total")
    /\ threads' = [threads EXCEPT ![t].total_requests = metrics.total_requests,
                                  ![t].pc = "load_time"]
    /\ UNCHANGED << engineVars, metrics, issued, ffiVars, libVars, svcVars >>

\* line 101
LoadTime(t) ==
    /\ At(t, "load_time")
    /\ threads' = [threads EXCEPT ![t].total_time = metrics.total_processing_time_ns,
                                  ![t].pc = "store_avg"]
    /\ UNCHANGED << engineVars, metrics, issued, ffiVars, libVars, svcVars >>

\* line 102-106: store the average computed from the loaded values; return
RecordAvg(t) ==
    /\ At(t, "store_avg")
    /\ metrics' = StoreAvg(metrics, threads[t].total_requests, threads[t].total_time)
    /\ threads' = [threads EXCEPT ![t] = IdleThread]
    /\ UNCHANGED << engineVars, issued, ffiVars, libVars, svcVars >>

NextMetrics ==
    \/ \E t \in Threads, blocked \in BOOLEAN, time_ns \in Latencies :
          RecordBegin(t, blocked, time_ns)
    \/ \E t \in Threads : RecordOutcome(t)
    \/ \E t \in Threads : RecordTime(t)
    \/ \E t \in Threads : RecordMax(t)
    \/ \E t \in Threads : LoadMin(t)
    \/ \E t \in Threads : CasMinOk(t)
    \/ \E t \in Threads : CasMinFail(t)
    \/ \E t \in Threads : LoadTotal(t)
    \/ \E t \in Threads : LoadTime(t)
    \/ \E t \in Threads : RecordAvg(t)

SpecMetrics == InitMetrics /\ [][NextMetrics]_vars

(***************************************************************************)
(* SpecFfi: one AdBlockEngine handle used by several callers of the C      *)
(* interface.  A call that passes its argument checks takes the mutex,     *)
(* works on the core and releases the mutex when it returns.               *)
(***************************************************************************)
\* arguments as the C caller can pass them
EnginePtrs == { "null", "engine" }

Arg(kind, text) == [kind |-> kind, text |-> text]

FilterTexts ==
    { "||ads.com^\n@@||ads.com/acceptable/*\n", "! ads\n  ||ads.com^  \n[x]\na.com##.ad" }

FfiUrls ==
    { "https://ads.com/acceptable/x", "https://ads.com/banner", "https://doubleclick.net/ad" }

\* a C string argument: a null pointer, bytes that are not UTF-8, or text
CStrings(texts) ==
    { Arg("null", ""), Arg("invalid_utf8", "") } \cup { Arg("text", x) : x \in texts }

\* get_engine_ref / c_str_to_rust: the checks before the mutex is touched
Rejected(engine_ptr, arg) == engine_ptr = "null" \/ arg.kind # "text"

InitFfi ==
    /\ engine = new_with_patterns(<< >>)
    /\ metrics = NewMetrics
    /\ calls = 0
    /\ last = Last("new", "", NoOutcome)
    /\ RecorderIdle
    /\ FfiIdle
    /\ SvcIdle
    /\ LibIdle

Begun == ffi_log' = [ffi_log EXCEPT !.begun = @ + 1]

Returned(op, arg, ret, seen) ==
    ffi_log' = [ffi_log EXCEPT !.completed = @ + 1,
                               !.last = [op |-> op, arg |-> arg, ret |-> ret,
                                         seen |-> seen]]

BegunAndReturned(op, arg, ret) ==
    ffi_log' = [ffi_log EXCEPT !.begun = @ + 1, !.completed = @ + 1,
                               !.last = [op |-> op, arg |-> arg, ret |-> ret,
                                         seen |-> {}]]

\* variant: a rejected load leaves the handle with an engine of zero rules
LoadRejectedClearing(t, engine_ptr, filter_list) ==
    /\ ffi[t].pc = "idle"
    /\ ffi_log.begun < MaxCalls
    /\ Rejected(engine_ptr, filter_list)
    /\ BegunAndReturned("load", filter_list.text, FALSE)
    /\ core' = AdBlockCore_from_filter_list("")
    /\ UNCHANGED << engineVars, metrics, recorderVars, libVars, lock, ffi, svcVars >>

\* adblock_engine_load_filter_list, ffi.rs 116-124: return false
LoadRejected(t, engine_ptr, filter_list) ==
    /\ ffi[t].pc = "idle"
    /\ ffi_log.begun < MaxCalls
    /\ Rejected(engine_ptr, filter_list)
    /\ ffi_log' = [ffi_log EXCEPT !.begun = @ + 1, !.completed = @ + 1,
                                  !.last = [op |-> "load", arg |-> filter_list.text,
                                            ret |-> FALSE, seen |-> {}],
                                  !.before = StatsJson(get_statistics(core))]
    /\ UNCHANGED << engineVars, metrics, recorderVars, libVars, core, lock, ffi, svcVars >>

LoadBegin(t, filter_list) ==
    /\ ffi[t].pc = "idle"
    /\ ffi_log.begun < MaxCalls
    /\ ~Rejected("engine", filter_list)
    /\ ffi' = [ffi EXCEPT ![t] = [IdleCaller EXCEPT !.pc = "load_lock", !.op = "load",
                                                  !.arg = filter_list.text]]
    /\ Begun
    /\ UNCHANGED << engineVars, metrics, recorderVars, libVars, core, lock, svcVars >>

\* ffi.rs 126: engine.core.lock()
LoadLock(t) ==
    /\ ffi[t].pc = "load_lock"
    /\ can_lock(lock)
    /\ lock' = t
    /\ ffi' = [ffi EXCEPT ![t].pc = "load_assign"]
    /\ UNCHANGED << engineVars, metrics, recorderVars, libVars, core, ffi_log, svcVars >>

\* variant: the new core takes over the statistics of the core it replaces
LoadAssign_keeping_statistics(t) ==
    /\ ffi[t].pc = "load_assign"
    /\ LET new_core == [AdBlockCore_from_filter_list(ffi[t].arg)
                           EXCEPT !.statistics = core.statistics]
       IN  /\ core' = new_core
           /\ ffi' = [u \in Callers |->
                        IF u = t THEN IdleCaller
                        ELSE IF ffi[u].op = "should_block"
                        THEN [ffi[u] EXCEPT !.seen = @ \cup { new_core.engine }]
                        ELSE ffi[u]]
    /\ lock' = "free"
    /\ ffi_log' = [ffi_log EXCEPT !.completed = @ + 1,
                                  !.last = [op |-> "load", arg |-> ffi[t].arg,
                                            ret |-> TRUE, seen |-> {}],
                                  !.added = {},
                                  !.before = StatsJson(get_statistics(core))]
    /\ UNCHANGED << engineVars, metrics, recorderVars, libVars, svcVars >>

\* ffi.rs 129-135: build the new core, *core = new_core, return true; the guard drops.
\* Every should_block call in progress has now been in force of the new engine too.
LoadAssign(t) ==
    /\ ffi[t].pc = "load_assign"
    /\ LET new_core == AdBlockCore_from_filter_list(ffi[t].arg)
       IN  /\ core' = new_core
           /\ ffi' = [u \in Callers |->
                        IF u = t THEN IdleCaller
                        ELSE IF ffi[u].op = "should_block"
                        THEN [ffi[u] EXCEPT !.seen = @ \cup { new_core.engine }]
                        ELSE ffi[u]]
    /\ lock' = "free"
    /\ ffi_log' = [ffi_log EXCEPT !.completed = @ + 1,
                                  !.last = [op |-> "load", arg |-> ffi[t].arg,
                                            ret |-> TRUE, seen |-> {}],
                                  !.added = {},
                                  !.before = StatsJson(get_statistics(core))]
    /\ UNCHANGED << engineVars, metrics, recorderVars, libVars, svcVars >>

\* adblock_engine_should_block, ffi.rs 66-74: return false
ShouldBlockRejected(t, engine_ptr, url) ==
    /\ ffi[t].pc = "idle"
    /\ ffi_log.begun < MaxCalls
    /\ Rejected(engine_ptr, url)
    /\ BegunAndReturned("should_block_rejected", url.text, FALSE)
    /\ UNCHANGED << engineVars, metrics, recorderVars, libVars, core, lock, ffi, svcVars >>

ShouldBlockBegin(t, url) ==
    /\ ffi[t].pc = "idle"
    /\ ffi_log.begun < MaxCalls
    /\ ~Rejected("engine", url)
    /\ ffi' = [ffi EXCEPT ![t] = [IdleCaller EXCEPT !.pc = "check_lock",
                                                  !.op = "should_block",
                                                  !.arg = url.text,
                                                  !.seen = { core.engine }]]
    /\ Begun
    /\ UNCHANGED << engineVars, metrics, recorderVars, libVars, core, lock, svcVars >>

\* ffi.rs 76: engine.core.lock()
CheckLock(t) ==
    /\ ffi[t].pc = "check_lock"
    /\ can_lock(lock)
    /\ lock' = t
    /\ ffi' = [ffi EXCEPT ![t].pc = "check_exceptions"]
    /\ UNCHANGED << engineVars, metrics, recorderVars, libVars, core, ffi_log, svcVars >>

\* check_url -> should_block, first pass, on the engine the core holds now
CheckExceptions(t) ==
    /\ ffi[t].pc = "check_exceptions"
    /\ ffi' = [ffi EXCEPT ![t].pc = "check_blocks", ![t].first = core.engine]
    /\ UNCHANGED << engineVars, metrics, recorderVars, libVars, core, lock, ffi_log, svcVars >>

\* should_block's later passes on the engine the core holds now, track_decision,
\* return decision.should_block; the guard drops
CheckBlocks(t) ==
    /\ ffi[t].pc = "check_blocks"
    /\ LET o == ShouldBlockOn(ffi[t].first, core.engine, ffi[t].arg)
       IN  /\ \E time_ns \in ElapsedTimes : core' = track_decision(core, o, extract_domain(ffi[t].arg), 0, time_ns)
           /\ Returned("should_block", ffi[t].arg, o.should_block, ffi[t].seen)
    /\ lock' = "free"
    /\ ffi' = [ffi EXCEPT ![t] = IdleCaller]
    /\ UNCHANGED << engineVars, metrics, recorderVars, libVars, svcVars >>

\* the rule texts passed to adblock_engine_add_rule
FfiRules == { "||ads.com^" }

\* adblock_engine_add_rule, ffi.rs 89-97: return false
AddRuleRejected(t, engine_ptr, rule) ==
    /\ ffi[t].pc = "idle"
    /\ ffi_log.begun < MaxCalls
    /\ Rejected(engine_ptr, rule)
    /\ BegunAndReturned("add_rule", rule.text, FALSE)
    /\ UNCHANGED << engineVars, metrics, recorderVars, libVars, core, lock, ffi, svcVars >>

AddRuleBegin(t, rule) ==
    /\ ffi[t].pc = "idle"
    /\ ffi_log.begun < MaxCalls
    /\ ~Rejected("engine", rule)
    /\ ffi' = [ffi EXCEPT ![t] = [IdleCaller EXCEPT !.pc = "add_lock", !.op = "add_rule",
                                                  !.arg = rule.text]]
    /\ Begun
    /\ UNCHANGED << engineVars, metrics, recorderVars, libVars, core, lock, svcVars >>

\* ffi.rs 99: engine.core.lock()
AddRuleLock(t) ==
    /\ ffi[t].pc = "add_lock"
    /\ can_lock(lock)
    /\ lock' = t
    /\ ffi' = [ffi EXCEPT ![t].pc = "add_drop"]
    /\ UNCHANGED << engineVars, metrics, recorderVars, libVars, core, ffi_log, svcVars >>

\* ffi.rs 100-105: drop(core), return true; the rule text is not used
AddRuleDrop(t) ==
    /\ ffi[t].pc = "add_drop"
    /\ lock' = "free"
    /\ ffi' = [ffi EXCEPT ![t] = IdleCaller]
    /\ ffi_log' = [ffi_log EXCEPT !.completed = @ + 1,
                                  !.last = [op |-> "add_rule", arg |-> ffi[t].arg,
                                            ret |-> TRUE, seen |-> {}],
                                  !.added = @ \cup { ffi[t].arg }]
    /\ UNCHANGED << engineVars, metrics, recorderVars, libVars, core, svcVars >>

\* adblock_engine_get_stats, ffi.rs 144-147: a null engine pointer, return null
GetStatsRejected(t) ==
    /\ ffi[t].pc = "idle"
    /\ ffi_log.begun < MaxCalls
    /\ ffi_log' = [ffi_log EXCEPT !.begun = @ + 1, !.completed = @ + 1,
                                  !.last = [op |-> "get_stats", arg |-> "",
                                            ret |-> FALSE, seen |-> {}],
                                  !.json = ""]
    /\ UNCHANGED << engineVars, metrics, recorderVars, libVars, core, lock, ffi, svcVars >>

GetStatsBegin(t) ==
    /\ ffi[t].pc = "idle"
    /\ ffi_log.begun < MaxCalls
    /\ ffi' = [ffi EXCEPT ![t] = [IdleCaller EXCEPT !.pc = "stats_lock",
                                                  !.op = "get_stats"]]
    /\ Begun
    /\ UNCHANGED << engineVars, metrics, recorderVars, libVars, core, lock, svcVars >>

\* ffi.rs 149: engine.core.lock()
GetStatsLock(t) ==
    /\ ffi[t].pc = "stats_lock"
    /\ can_lock(lock)
    /\ lock' = t
    /\ ffi' = [ffi EXCEPT ![t].pc = "stats_read"]
    /\ UNCHANGED << engineVars, metrics, recorderVars, libVars, core, ffi_log, svcVars >>

\* ffi.rs 150-164: copy the statistics, format them, return the text; the guard drops
GetStatsRead(t) ==
    /\ ffi[t].pc = "stats_read"
    /\ lock' = "free"
    /\ ffi' = [ffi EXCEPT ![t] = IdleCaller]
    /\ ffi_log' = [ffi_log EXCEPT !.completed = @ + 1,
                                  !.last = [op |-> "get_stats", arg |-> "",
                                            ret |-> TRUE, seen |-> {}],
                                  !.json = StatsJson(get_statistics(core))]
    /\ UNCHANGED << engineVars, metrics, recorderVars, libVars, core, svcVars >>

NextFfi ==
    \/ \E t \in Callers, p \in EnginePtrs, x \in CStrings(FfiRules) :
          AddRuleRejected(t, p, x)
    \/ \E t \in Callers, x \in CStrings(FfiRules) : AddRuleBegin(t, x)
    \/ \E t \in Callers : AddRuleLock(t)
    \/ \E t \in Callers : AddRuleDrop(t)
    \/ \E t \in Callers, p \in EnginePtrs, x \in CStrings(FilterTexts) :
          LoadRejected(t, p, x)
    \/ \E t \in Callers, x \in CStrings(FilterTexts) : LoadBegin(t, x)
    \/ \E t \in Callers : LoadLock(t)
    \/ \E t \in Callers : LoadAssign(t)
    \/ \E t \in Callers, p \in EnginePtrs, x \in CStrings(FfiUrls) :
          ShouldBlockRejected(t, p, x)
    \/ \E t \in Callers, x \in CStrings(FfiUrls) : ShouldBlockBegin(t, x)
    \/ \E t \in Callers : CheckLock(t)
    \/ \E t \in Callers : CheckExceptions(t)
    \/ \E t \in Callers : CheckBlocks(t)
    \/ \E t \in Callers : GetStatsRejected(t)
    \/ \E t \in Callers : GetStatsBegin(t)
    \/ \E t \in Callers : GetStatsLock(t)
    \/ \E t \in Callers : GetStatsRead(t)

SpecFfi == InitFfi /\ [][NextFfi]_vars

(***************************************************************************)
(* SpecWildcard: matches_wildcard_pattern applied to a pattern and a url.  *)
(***************************************************************************)
WildcardPatterns ==
    { "*/ads/*", "/ads/*", "https://x.com/*", "http*/ads/*1", "*banner", "h*s/*/b",
      "||ads.com", "", "*" }

WildcardUrls ==
    { "https://x.com/ads/1", "http://y.com/a/ads/b", "/ads/x", "https://x.com/banner",
      "https://x.com/banners/b", "||ads.com/x", "||ads.com", "" }

InitWildcard ==
    /\ engine = new_with_patterns(<< >>)
    /\ metrics = NewMetrics
    /\ calls = 0
    /\ last = Last("new", "", NoOutcome)
    /\ RecorderIdle
    /\ FfiIdle
    /\ SvcIdle
    /\ loader = NoLoad
    /\ matcher = NoMatcherCall
    /\ \E url \in WildcardUrls, pattern \in WildcardPatterns :
          wildcard = [url |-> url, pattern |-> pattern, result |-> "pending"]

MatchesWildcardPattern ==
    /\ wildcard.result = "pending"
    /\ wildcard' = [wildcard EXCEPT
                      !.result = matches_wildcard_pattern(wildcard.url, wildcard.pattern)]
    /\ UNCHANGED << engineVars, metrics, recorderVars, ffiVars, loader, matcher, svcVars >>

NextWildcard == MatchesWildcardPattern

SpecWildcard == InitWildcard /\ [][NextWildcard]_vars

(***************************************************************************)
(* SpecLoader: FilterEngine::from_filter_list on a filter-list text, in    *)
(* its two steps: parse_filter_list, then parse_rule on every line kept.   *)
(***************************************************************************)
LoaderLines ==
    { "||ads.com^", "  ||ads.com^\t", "! comment", "[Adblock Plus 2.0]", "[x", "",
      "a.com##.ad", "a.com#@#.ad", "@@||a.com^", "||ads.com", "/ads/*", "ads.com\r" }

\* the texts of n lines
RECURSIVE TextsOf(_)
TextsOf(n) ==
    IF n = 0 THEN { "" }
    ELSE IF n = 1 THEN LoaderLines
    ELSE { text \o "\n" \o line : text \in TextsOf(n - 1), line \in LoaderLines }

LoaderTexts == UNION { TextsOf(n) : n \in 0..MaxLines }

InitLoader ==
    /\ engine = new_with_patterns(<< >>)
    /\ metrics = NewMetrics
    /\ calls = 0
    /\ last = Last("new", "", NoOutcome)
    /\ RecorderIdle
    /\ FfiIdle
    /\ SvcIdle
    /\ wildcard = NoWildcardCall
    /\ matcher = NoMatcherCall
    /\ \E filter_list \in LoaderTexts :
          loader = [NoLoad EXCEPT !.stage = "text", !.filter_list = filter_list]

\* filter_engine.rs 70-71
ParseFilterList ==
    /\ loader.stage = "text"
    /\ loader' = [loader EXCEPT !.stage = "parsed",
                                !.raw_rules = parse_filter_list(loader.filter_list)]
    /\ UNCHANGED << engineVars, metrics, recorderVars, ffiVars, wildcard, matcher, svcVars >>

\* filter_engine.rs 73
ParseRules ==
    /\ loader.stage = "parsed"
    /\ loader' = [loader EXCEPT !.stage = "classified",
                                !.rules = MapParseRule(loader.raw_rules)]
    /\ UNCHANGED << engineVars, metrics, recorderVars, ffiVars, wildcard, matcher, svcVars >>

NextLoader ==
    \/ ParseFilterList
    \/ ParseRules

SpecLoader == InitLoader /\ [][NextLoader]_vars

(***************************************************************************)
(* rules.rs: RuleParser (a line to a FilterRule with RuleOptions) and      *)
(* RuleMatcher (the option-aware matcher).                                 *)
(***************************************************************************)
\* str::rfind
RECURSIVE RFindFrom(_, _, _)
RFindFrom(s, p, i) ==
    IF i < 0 THEN NotFound
    ELSE IF OccursAt(s, p, i) THEN i
    ELSE RFindFrom(s, p, i - 1)

RFind(s, p) == RFindFrom(s, p, Len(s) - Len(p))

\* str::trim_start_matches(ch)
RECURSIVE TrimStartMatches(_, _)
TrimStartMatches(s, ch) ==
    IF Len(s) > 0 /\ StartsWith(s, ch)
    THEN TrimStartMatches(SliceFrom(s, Len(ch)), ch)
    ELSE s

\* str::trim_matches(ch)
TrimMatches(s, ch) == TrimEndMatches(TrimStartMatches(s, ch), ch)

RECURSIVE MapTrim(_)
MapTrim(parts) ==
    IF parts = << >> THEN << >> ELSE << Trim(Head(parts)) >> \o MapTrim(Tail(parts))

\* the Option<bool> fields of RuleOptions and the option word that sets each
FlagWords ==
    { << "third-party", "third_party" >>, << "first-party", "first_party" >>,
      << "script", "script" >>, << "image", "image" >>,
      << "stylesheet", "stylesheet" >>, << "object", "object" >>,
      << "xmlhttprequest", "xmlhttprequest" >>, << "subdocument", "subdocument" >>,
      << "document", "document" >>, << "websocket", "websocket" >>,
      << "webrtc", "webrtc" >>, << "ping", "ping" >>, << "media", "media" >>,
      << "font", "font" >>, << "popup", "popup" >> }

OptionFields == { w[2] : w \in FlagWords } \cup { "domain", "sitekey" }

\* RuleOptions::default(): every field None
RuleOptions_default == [f \in OptionFields |-> None]

\* one arm of the match in parse_options
ApplyOption(options, option) ==
    IF \E w \in FlagWords : option = w[1]
    THEN LET w == CHOOSE w \in FlagWords : option = w[1]
         IN  [options EXCEPT ![w[2]] = Some(TRUE)]
    ELSE IF \E w \in FlagWords : option = "~" \o w[1]
    THEN LET w == CHOOSE w \in FlagWords : option = "~" \o w[1]
         IN  [options EXCEPT ![w[2]] = Some(FALSE)]
    ELSE IF StartsWith(option, "domain=")
    THEN [options EXCEPT !.domain = Some(MapTrim(Split(SliceFrom(option, 7), "|")))]
    ELSE IF StartsWith(option, "sitekey=")
    THEN [options EXCEPT !.sitekey = Some(SliceFrom(option, 8))]
    ELSE options

RECURSIVE ParseOptionsLoop(_, _)
ParseOptionsLoop(options, parts) ==
    IF parts = << >> THEN options
    ELSE ParseOptionsLoop(ApplyOption(options, Trim(Head(parts))), Tail(parts))

parse_options(options_str) ==
    ParseOptionsLoop(RuleOptions_default, Split(options_str, ","))

\* rules.rs FilterRule
ParsedRule(rule_type, pattern, domains, options) ==
    [rule_type |-> rule_type, pattern |-> pattern, domains |-> domains,
     options |-> options]

parse_element_hiding_rule(line) ==
    LET is_exception == Contains(line, "#@#")
        separator == IF is_exception THEN "#@#" ELSE "##"
        pos == Find(line, separator)
        before == Slice(line, 0, pos)
        after == SliceFrom(line, pos + Len(separator))
    IN  Some(ParsedRule(IF is_exception THEN "Allow" ELSE "ElementHide",
                        Trim(after),
                        IF before = "" THEN None ELSE Some(MapTrim(Split(before, ","))),
                        RuleOptions_default))

parse_url_rule(line) ==
    LET pos == RFind(line, "$")
        before == IF pos # NotFound THEN Slice(line, 0, pos) ELSE line
        is_allow == StartsWith(before, "@@")
        pattern == IF is_allow THEN SliceFrom(before, 2) ELSE before
        options == IF pos # NotFound THEN parse_options(SliceFrom(line, pos + 1))
                   ELSE RuleOptions_default
    IN  Some(ParsedRule(IF is_allow THEN "Allow" ELSE "Block", pattern,
                        options.domain, options))

\* RuleParser::parse_rule
RuleParser_parse_rule(raw_line) ==
    LET line == Trim(raw_line)
    IN  IF line = "" \/ StartsWith(line, "!") THEN None
        ELSE IF StartsWith(line, "[") /\ EndsWith(line, "]") THEN None
        ELSE IF Contains(line, "##") \/ Contains(line, "#@#")
        THEN parse_element_hiding_rule(line)
        ELSE parse_url_rule(line)

\* RuleMatcher::add_rule (the domain_index it also fills is never read by should_block)
RuleMatcher_add_rule(rm, rule) ==
    IF rule.rule_type = "Block" THEN [rm EXCEPT !.block_rules = Append(@, rule)]
    ELSE IF rule.rule_type = "Allow" THEN [rm EXCEPT !.allow_rules = Append(@, rule)]
    ELSE IF rule.rule_type = "ElementHide"
    THEN [rm EXCEPT !.element_hide_rules = Append(@, rule)]
    ELSE rm

ContentTypes ==
    { "Script", "Image", "Stylesheet", "Object", "XmlHttpRequest", "Subdocument",
      "Document", "Websocket", "Media", "Font", "Other" }

MatchOptions(domain, content_type, is_third_party) ==
    [domain |-> domain, content_type |-> content_type,
     is_third_party |-> is_third_party]

\* Option::unwrap_or
unwrap_or(opt, default) == IF opt = None THEN default ELSE opt[1]

\* variant: a flag the rule does not carry counts as false
matches_content_type_strict(rule, options) ==
    LET opts == rule.options
    IN  CASE options.content_type = "Script" -> unwrap_or(opts.script, FALSE)
          [] options.content_type = "Image" -> unwrap_or(opts.image, FALSE)
          [] options.content_type = "Stylesheet" -> unwrap_or(opts.stylesheet, FALSE)
          [] options.content_type = "Object" -> unwrap_or(opts.object, FALSE)
          [] options.content_type = "XmlHttpRequest" -> unwrap_or(opts.xmlhttprequest, FALSE)
          [] options.content_type = "Subdocument" -> unwrap_or(opts.subdocument, FALSE)
          [] options.content_type = "Document" -> unwrap_or(opts.document, FALSE)
          [] options.content_type = "Websocket" -> unwrap_or(opts.websocket, FALSE)
          [] options.content_type = "Media" -> unwrap_or(opts.media, FALSE)
          [] options.content_type = "Font" -> unwrap_or(opts.font, FALSE)
          [] options.content_type = "Other" -> TRUE

matches_content_type(rule, options) ==
    LET opts == rule.options
    IN  CASE options.content_type = "Script" -> unwrap_or(opts.script, TRUE)
          [] options.content_type = "Image" -> unwrap_or(opts.image, TRUE)
          [] options.content_type = "Stylesheet" -> unwrap_or(opts.stylesheet, TRUE)
          [] options.content_type = "Object" -> unwrap_or(opts.object, TRUE)
          [] options.content_type = "XmlHttpRequest" -> unwrap_or(opts.xmlhttprequest, TRUE)
          [] options.content_type = "Subdocument" -> unwrap_or(opts.subdocument, TRUE)
          [] options.content_type = "Document" -> unwrap_or(opts.document, TRUE)
          [] options.content_type = "Websocket" -> unwrap_or(opts.websocket, TRUE)
          [] options.content_type = "Media" -> unwrap_or(opts.media, TRUE)
          [] options.content_type = "Font" -> unwrap_or(opts.font, TRUE)
          [] options.content_type = "Other" -> TRUE

matches_pattern(pattern, url) ==
    LET stripped == SliceFrom(pattern, 2)
        separator_pos == Find(stripped, "^")
    IN  IF StartsWith(pattern, "||") /\ separator_pos # NotFound
        THEN Contains(url, Slice(stripped, 0, separator_pos))
        ELSE Contains(url, TrimMatches(pattern, "*"))

\* the closure of domains.iter().any(..) in matches_rule
ScopeEntryMatches(d, page_domain) ==
    IF StartsWith(d, "~")
    THEN ~EndsWith(page_domain, SliceFrom(d, 1))
    ELSE EndsWith(page_domain, d)

matches_rule(rule, url, options) ==
    LET domains == rule.options.domain
        matches_domain ==
            \E i \in 1..Len(domains[1]) : ScopeEntryMatches(domains[1][i], options.domain[1])
    IN  IF domains # None /\ options.domain # None /\ ~matches_domain THEN FALSE
        ELSE IF ~matches_content_type(rule, options) THEN FALSE
        ELSE matches_pattern(rule.pattern, url)

AnyMatches(rules, url, options) ==
    \E i \in 1..Len(rules) : matches_rule(rules[i], url, options)

\* RuleMatcher::should_block
RuleMatcher_should_block(rm, url, options) ==
    IF AnyMatches(rm.allow_rules, url, options) THEN FALSE
    ELSE AnyMatches(rm.block_rules, url, options)

(***************************************************************************)
(* SpecRules: a RuleMatcher fed rule lines through RuleParser, and asked   *)
(* for decisions.                                                          *)
(***************************************************************************)
MatcherLines ==
    { "||ads.com^", "ads.com", "@@||ads.com/acceptable/*",
      "ads.com$domain=a.com|~sub.a.com", "ads.com$script,~image", "/ads/$~script",
      "a.com#@#.ads", "##.banner" }

MatcherUrls ==
    { "https://ads.com/banner", "https://x.com/ads.com", "https://ads.com/acceptable/x",
      "https://cdn.ads.com/ads/1" }

PageDomains == { None, Some("a.com"), Some("sub.a.com"), Some("b.com") }

MatchContexts ==
    { MatchOptions(domain, content_type, FALSE) :
         domain \in PageDomains, content_type \in { "Script", "Image", "Other" } }

InitRules ==
    /\ engine = new_with_patterns(<< >>)
    /\ metrics = NewMetrics
    /\ calls = 0
    /\ last = Last("new", "", NoOutcome)
    /\ RecorderIdle
    /\ FfiIdle
    /\ SvcIdle
    /\ LibIdle

\* parser.parse_rule(line), then matcher.add_rule(rule) when a rule came out
MatcherAddRule(line) ==
    /\ Len(matcher.lines) < MaxRules
    /\ LET parsed == RuleParser_parse_rule(line)
       IN  matcher' = [NoMatcherCall EXCEPT
                         !.lines = Append(matcher.lines, line),
                         !.rm = IF parsed = None THEN matcher.rm
                                ELSE RuleMatcher_add_rule(matcher.rm, parsed[1])]
    /\ UNCHANGED << engineVars, metrics, recorderVars, ffiVars, wildcard, loader, svcVars >>

MatcherShouldBlock(url, options) ==
    /\ matcher' = [matcher EXCEPT
                     !.called = TRUE, !.url = url, !.options = options,
                     !.result = RuleMatcher_should_block(matcher.rm, url, options)]
    /\ UNCHANGED << engineVars, metrics, recorderVars, ffiVars, wildcard, loader, svcVars >>

NextRules ==
    \/ \E line \in MatcherLines : MatcherAddRule(line)
    \/ \E url \in MatcherUrls, options \in MatchContexts : MatcherShouldBlock(url, options)

SpecRules == InitRules /\ [][NextRules]_vars

(***************************************************************************)
(* Statistics on its own and behind AdBlockCore::check_url                *)
(***************************************************************************)

MaxEvents == 3

\* the max_recent_events a Statistics is configured with
EventLimits == { 0, 1, 2, DefaultMaxRecentEvents }

StatDomains == { "ads.com", "ok.com" }

Sizes == { 1, 3 }

\* the patterns of the AdBlockCore whose check_url is called
CorePatterns == << "||ads.com^", "@@||ads.com/ok*" >>

CoreUrls == { "https://ads.com/banner", "https://ads.com/ok/1", "ok.com/page" }

InitStats ==
    /\ engine = new_with_patterns(<< >>)
    /\ metrics = NewMetrics
    /\ calls = 0
    /\ last = NoOutcome
    /\ RecorderIdle
    /\ LibIdle
    /\ FfiIdle
    /\ updater = NoUpdater
    /\ css = NoCssCall
    /\ exception = NoExceptionCall
    /\ optimizer = NoOptimizer
    /\ \/ \E m \in EventLimits :
            stats = [kind |-> "statistics",
                     core |-> [AdBlockCore_with_patterns(<< >>) EXCEPT
                                  !.statistics = Statistics_with_config(StatisticsConfig(m))],
                     history |-> << >>, call |-> NoStatsCall]
       \/ stats = [kind |-> "core", core |-> AdBlockCore_with_patterns(CorePatterns),
                   history |-> << >>, call |-> NoStatsCall]

StatsUnchanged ==
    UNCHANGED << engineVars, metrics, recorderVars, ffiVars, libVars, updater, css, exception,
                 optimizer >>

\* Statistics::record_blocked
RecordBlocked(domain, size) ==
    /\ stats.kind = "statistics"
    /\ Len(stats.history) < MaxEvents
    /\ stats' = [stats EXCEPT
                    !.core.statistics = record_blocked(@, domain, size),
                    !.history = Append(@, BlockEvent(domain, TRUE, size)),
                    !.call = [op |-> "record_blocked", arg |-> domain, size |-> size,
                              ret |-> << >>]]
    /\ StatsUnchanged

\* Statistics::record_allowed
RecordAllowed(domain, size) ==
    /\ stats.kind = "statistics"
    /\ Len(stats.history) < MaxEvents
    /\ stats' = [stats EXCEPT
                    !.core.statistics = record_allowed(@, domain, size),
                    !.history = Append(@, BlockEvent(domain, FALSE, size)),
                    !.call = [op |-> "record_allowed", arg |-> domain, size |-> size,
                              ret |-> << >>]]
    /\ StatsUnchanged

\* AdBlockCore::check_url
CheckUrl(url, size) ==
    /\ stats.kind = "core"
    /\ Len(stats.history) < MaxEvents
    /\ LET decision == should_block(stats.core.engine, url)
       IN  \E time_ns \in ElapsedTimes :
             stats' = [stats EXCEPT
                 !.core = track_decision(@, decision, extract_domain(url), size, time_ns),
                 !.history = Append(@, BlockEvent(extract_domain(url),
                                                  decision.should_block, size)),
                 !.call = [op |-> "check_url", arg |-> url, size |-> size,
                           ret |-> << decision.should_block >>]]
    /\ StatsUnchanged

\* Statistics::recent_events, also through AdBlockCore::get_statistics
RecentEvents(limit) ==
    /\ stats.kind # "none"
    /\ stats' = [stats EXCEPT
                    !.call = [op |-> "recent_events", arg |-> "", size |-> limit,
                              ret |-> recent_events(stats.core.statistics, limit)]]
    /\ StatsUnchanged

NextStats ==
    \/ \E domain \in StatDomains, size \in Sizes : RecordBlocked(domain, size)
    \/ \E domain \in StatDomains, size \in Sizes : RecordAllowed(domain, size)
    \/ \E url \in CoreUrls, size \in Sizes : CheckUrl(url, size)
    \/ \E limit \in 0..(MaxEvents + 1) : RecentEvents(limit)

SpecStats == InitStats /\ [][NextStats]_vars

(***************************************************************************)
(* FilterUpdater: the update clock, the cache directory, auto_update      *)
(***************************************************************************)

Ok(value) == [ok |-> TRUE, value |-> value]

Err(error) == [ok |-> FALSE, value |-> error]

UpdateConfig(urls, update_interval, cache_dir) ==
    [urls |-> urls, update_interval |-> update_interval, cache_dir |-> cache_dir]

\* the two files of the cache directory: filters_cache.txt and cache_metadata.json
CacheDir(cache_file, metadata) == [cache_file |-> cache_file, metadata |-> metadata]

\* FilterUpdater::load_cache_metadata
load_cache_metadata(self, fs) ==
    IF self.config.cache_dir # None /\ fs.metadata # None
    THEN [self EXCEPT !.last_update = fs.metadata]
    ELSE self

\* FilterUpdater::new
FilterUpdater_new(config, fs) ==
    LET created == [config |-> config, last_update |-> None]
    IN  IF config.cache_dir # None THEN load_cache_metadata(created, fs) ELSE created

\* a variant of needs_update that asks for more than the interval
needs_update_late(self, now) ==
    IF self.last_update = None
    THEN TRUE
    ELSE LET last_time == self.last_update[1]
         IN  IF now >= last_time
             THEN now - last_time > self.config.update_interval
             ELSE TRUE

\* FilterUpdater::needs_update at clock reading now; duration_since is an Err
\* when the clock reads earlier than last_update
needs_update(self, now) ==
    IF self.last_update = None
    THEN TRUE
    ELSE LET last_time == self.last_update[1]
         IN  IF now >= last_time
             THEN now - last_time >= self.config.update_interval
             ELSE TRUE

\* FilterUpdater::save_to_cache and save_cache_metadata; fails names the write
\* that returns an io::Error, if any
save_to_cache(fs, content, now, fails) ==
    IF fails = "content"
    THEN [ok |-> FALSE, fs |-> fs]
    ELSE IF fails = "metadata"
    THEN [ok |-> FALSE, fs |-> [fs EXCEPT !.cache_file = Some(content)]]
    ELSE [ok |-> TRUE, fs |-> CacheDir(Some(content), Some(now))]

\* FilterUpdater::update_with_content
update_with_content(self, fs, content, now, fails) ==
    LET saved == IF self.config.cache_dir # None
                 THEN save_to_cache(fs, content, now, fails)
                 ELSE [ok |-> TRUE, fs |-> fs]
    IN  IF saved.ok
        THEN [ok |-> TRUE, self |-> [self EXCEPT !.last_update = Some(now)], fs |-> saved.fs]
        ELSE [ok |-> FALSE, self |-> self, fs |-> saved.fs]

\* include_str!("../tests/fixtures/easylist_sample.txt"): the text of the fixture
EasylistSample == "! easylist_sample.txt\n"

\* FilterUpdater::download_filter_list
download_filter_list(url) ==
    IF Contains(url, "invalid") \/ Contains(url, "nonexistent")
    THEN Err("Failed to download filter list")
    ELSE IF Contains(url, "easylist")
    THEN Ok(EasylistSample)
    ELSE IF Contains(url, "easyprivacy")
    THEN Ok("! EasyPrivacy Sample\n||analytics.com^\n||tracking.net^")
    ELSE Ok("||downloaded-ads.com^")

\* variant: the lists are merged last one first
RECURSIVE MergeLoop_reversed(_)
MergeLoop_reversed(lists) ==
    IF lists = << >>
    THEN ""
    ELSE LET list == lists[Len(lists)]
         IN  list \o (IF EndsWith(list, "\n") THEN "" ELSE "\n")
                  \o MergeLoop_reversed(SubSeq(lists, 1, Len(lists) - 1))

\* the loop of merge_filter_lists
RECURSIVE MergeLoop(_)
MergeLoop(lists) ==
    IF lists = << >>
    THEN ""
    ELSE LET list == Head(lists)
         IN  list \o (IF EndsWith(list, "\n") THEN "" ELSE "\n") \o MergeLoop(Tail(lists))

\* FilterUpdater::merge_filter_lists
merge_filter_lists(lists, now) ==
    "! Merged Filter List\n" \o "! Generated at: " \o ToString(now) \o "\n\n"
        \o MergeLoop(lists)

\* FilterUpdater::load_from_cache
load_from_cache(self, fs) ==
    IF self.config.cache_dir = None
    THEN Err("No cache directory configured")
    ELSE IF fs.cache_file = None
    THEN Err("Cache file not found")
    ELSE Ok(fs.cache_file[1])

\* the download loop of auto_update: the contents of the lists that downloaded
RECURSIVE Downloaded(_)
Downloaded(urls) ==
    IF urls = << >>
    THEN << >>
    ELSE LET got == download_filter_list(Head(urls))
         IN  (IF got.ok THEN << got.value >> ELSE << >>) \o Downloaded(Tail(urls))

\* FilterUpdater::auto_update
auto_update(self, fs, now, fails) ==
    LET cached == load_from_cache(self, fs)
        all_filters == Downloaded(self.config.urls)
        merged == merge_filter_lists(all_filters, now)
        stored == update_with_content(self, fs, merged, now, fails)
    IN  IF ~needs_update(self, now) /\ cached.ok
        THEN [ret |-> cached, self |-> self, fs |-> fs, updated |-> FALSE]
        ELSE IF all_filters = << >>
        THEN [ret |-> Err("Failed to download any filter lists"),
              self |-> self, fs |-> fs, updated |-> FALSE]
        ELSE IF stored.ok
        THEN [ret |-> Ok(merged), self |-> stored.self, fs |-> stored.fs, updated |-> TRUE]
        ELSE [ret |-> Err("io"), self |-> self, fs |-> stored.fs, updated |-> FALSE]

(***************************************************************************)
(* A FilterUpdater, its cache directory and the system clock              *)
(***************************************************************************)

MaxClock == 3

UrlLists ==
    { << "http://invalid/a" >>,
      << "http://x.com/f" >>,
      << "http://invalid/a", "http://easyprivacy/b", "http://x.com/f" >> }

Intervals == { 1, 2 }

CachedTexts == { "||cached.com^\n" }

UpdateContents == { "||ads.example.com^" }

WriteFailures == { "none", "content", "metadata" }

NoUpdaterCall == [op |-> "new", ret |-> << >>]

\* the updater, what the directory and clock hold, the last call and what the
\* updater and directory were when it was made, whether new() found metadata,
\* and the clock reading of the last update that succeeded on this updater
Updater(self, fs, now, call, before, loaded, updated_at) ==
    [made |-> TRUE, self |-> self, fs |-> fs, now |-> now, call |-> call,
     before |-> before, loaded |-> loaded, updated_at |-> updated_at]

InitUpdater ==
    /\ engine = new_with_patterns(<< >>)
    /\ metrics = NewMetrics
    /\ calls = 0
    /\ last = NoOutcome
    /\ RecorderIdle
    /\ LibIdle
    /\ FfiIdle
    /\ stats = NoStats
    /\ css = NoCssCall
    /\ exception = NoExceptionCall
    /\ optimizer = NoOptimizer
    /\ \E urls \in UrlLists, update_interval \in Intervals,
          cache_dir \in { None, Some("cache") },
          cache_file \in { None } \cup { Some(t) : t \in CachedTexts },
          metadata \in { None, Some(0) } :
          /\ cache_dir = None => (cache_file = None /\ metadata = None)
          /\ LET fs == CacheDir(cache_file, metadata)
                 self == FilterUpdater_new(UpdateConfig(urls, update_interval, cache_dir), fs)
             IN  updater = Updater(self, fs, 0, NoUpdaterCall,
                                   [self |-> self, fs |-> fs, now |-> 0,
                                    updated_at |-> None, fails |-> "none"],
                                   cache_dir # None /\ metadata # None, None)

UpdaterUnchanged ==
    UNCHANGED << engineVars, metrics, recorderVars, ffiVars, libVars, stats, css, exception,
                 optimizer >>

Before ==
    [self |-> updater.self, fs |-> updater.fs, now |-> updater.now,
     updated_at |-> updater.updated_at, fails |-> "none"]

\* the clock advances
Tick ==
    /\ updater.made
    /\ updater.now < MaxClock
    /\ updater' = [updater EXCEPT !.now = @ + 1]
    /\ UpdaterUnchanged

\* the system clock is set back
StepBack ==
    /\ updater.made
    /\ updater.now > 0
    /\ updater' = [updater EXCEPT !.now = @ - 1]
    /\ UpdaterUnchanged

NeedsUpdate ==
    /\ updater.made
    /\ updater' = [updater EXCEPT
                      !.call = [op |-> "needs_update",
                                ret |-> needs_update(updater.self, updater.now)],
                      !.before = Before]
    /\ UpdaterUnchanged

UpdateWithContent(content, fails) ==
    /\ updater.made
    /\ LET r == update_with_content(updater.self, updater.fs, content, updater.now, fails)
       IN  updater' = [updater EXCEPT
                          !.self = r.self,
                          !.fs = r.fs,
                          !.call = [op |-> "update_with_content", ret |-> r.ok],
                          !.before = [Before EXCEPT !.fails = fails],
                          !.updated_at = IF r.ok THEN Some(updater.now) ELSE @]
    /\ UpdaterUnchanged

AutoUpdate(fails) ==
    /\ updater.made
    /\ LET r == auto_update(updater.self, updater.fs, updater.now, fails)
       IN  updater' = [updater EXCEPT
                          !.self = r.self,
                          !.fs = r.fs,
                          !.call = [op |-> "auto_update", ret |-> r.ret],
                          !.before = [Before EXCEPT !.fails = fails],
                          !.updated_at = IF r.updated THEN Some(updater.now) ELSE @]
    /\ UpdaterUnchanged

LoadFromCache ==
    /\ updater.made
    /\ updater' = [updater EXCEPT
                      !.call = [op |-> "load_from_cache",
                                ret |-> load_from_cache(updater.self, updater.fs)],
                      !.before = Before]
    /\ UpdaterUnchanged

NextUpdater ==
    \/ Tick
    \/ StepBack
    \/ NeedsUpdate
    \/ \E content \in UpdateContents, fails \in WriteFailures :
          UpdateWithContent(content, fails)
    \/ \E fails \in WriteFailures : AutoUpdate(fails)
    \/ LoadFromCache

SpecUpdater == InitUpdater /\ [][NextUpdater]_vars

(***************************************************************************)
(* FilterListLoader::get_css_rules                                        *)
(***************************************************************************)

\* a variant of CssSelector that ignores which domain an exclusion names
CssSelector_any_exclusion(trimmed, domain) ==
    IF StartsWith(trimmed, "##")
    THEN Some(SliceFrom(trimmed, 2))
    ELSE LET separator_pos == Find(trimmed, "##")
         IN  IF separator_pos = NotFound
             THEN None
             ELSE LET domains_part == Slice(trimmed, 0, separator_pos)
                      selector == SliceFrom(trimmed, separator_pos + 2)
                  IN  IF StartsWith(domains_part, "~")
                      THEN Some(selector)
                      ELSE IF domains_part = domain THEN Some(selector) ELSE None

\* the body of the loop of get_css_rules: the selector pushed for a trimmed
\* line, if any
CssSelector(trimmed, domain) ==
    IF StartsWith(trimmed, "##")
    THEN Some(SliceFrom(trimmed, 2))
    ELSE LET separator_pos == Find(trimmed, "##")
         IN  IF separator_pos = NotFound
             THEN None
             ELSE LET domains_part == Slice(trimmed, 0, separator_pos)
                      selector == SliceFrom(trimmed, separator_pos + 2)
                  IN  IF StartsWith(domains_part, "~")
                      THEN IF SliceFrom(domains_part, 1) # domain
                           THEN Some(selector)
                           ELSE None
                      ELSE IF domains_part = domain THEN Some(selector) ELSE None

RECURSIVE CssLoop(_, _)
CssLoop(lines, domain) ==
    IF lines = << >>
    THEN << >>
    ELSE CssSelector(Trim(Head(lines)), domain) \o CssLoop(Tail(lines), domain)

\* FilterListLoader::get_css_rules; it has no error path
get_css_rules(content, domain) == CssLoop(Lines(content), domain)

CssLines ==
    { "##.ad", "a.com##.banner", "~a.com##.x", "  b.com###id\t", "a.com#@#.ad",
      "||ads.com^", "a.com,b.com##.z", "~a.com,~b.com##.w##v" }

RECURSIVE CssTextsOf(_)
CssTextsOf(n) ==
    IF n = 0 THEN { "" }
    ELSE IF n = 1 THEN CssLines
    ELSE { text \o "\n" \o line : text \in CssTextsOf(n - 1), line \in CssLines }

CssTexts == UNION { CssTextsOf(n) : n \in 0..MaxLines }

CssDomains == { "a.com", "b.com", "" }

InitCss ==
    /\ engine = new_with_patterns(<< >>)
    /\ metrics = NewMetrics
    /\ calls = 0
    /\ last = NoOutcome
    /\ RecorderIdle
    /\ LibIdle
    /\ FfiIdle
    /\ stats = NoStats
    /\ updater = NoUpdater
    /\ exception = NoExceptionCall
    /\ optimizer = NoOptimizer
    /\ \E content \in CssTexts, domain \in CssDomains :
          css = [NoCssCall EXCEPT !.content = content, !.domain = domain]

GetCssRules ==
    /\ ~css.called
    /\ css' = [css EXCEPT !.called = TRUE,
                          !.result = get_css_rules(css.content, css.domain)]
    /\ UNCHANGED << engineVars, metrics, recorderVars, ffiVars, libVars, stats, updater,
                    exception, optimizer >>

NextCss == GetCssRules

SpecCss == InitCss /\ [][NextCss]_vars

(***************************************************************************)
(* matches_exception_pattern on the pattern of a parsed exception rule    *)
(***************************************************************************)

\* the rule texts r of the exception lines "@@" r
ExceptionTexts ==
    { "||ads.com^", "||ads.com", "||ads.com/acceptable/*", "||ads.com/ok", "ads.com",
      "*/ads/*", "ads.com/banner", "/ads/*" }

ExceptionUrls ==
    { "https://ads.com/", "https://ads.com/acceptable/x", "https://ads.com/ok",
      "https://x.com/ads/1", "https://ads.com.cdn.ads.com/acceptable/x",
      "https://sub.ads.com/ok?u=ads.com/no", "https://notads.com/ok",
      "https://x.com/?u=ads.com/banner" }

InitException ==
    /\ engine = new_with_patterns(<< >>)
    /\ metrics = NewMetrics
    /\ calls = 0
    /\ last = NoOutcome
    /\ RecorderIdle
    /\ LibIdle
    /\ FfiIdle
    /\ stats = NoStats
    /\ updater = NoUpdater
    /\ css = NoCssCall
    /\ optimizer = NoOptimizer
    /\ \E url \in ExceptionUrls, text \in ExceptionTexts :
          exception = [url |-> url, pattern |-> parse_rule("@@" \o text).text,
                       result |-> "pending"]

\* the test of the first loop of should_block on one Exception rule
MatchesExceptionPattern ==
    /\ exception.result = "pending"
    /\ exception' = [exception EXCEPT
                        !.result = matches_exception_pattern(exception.url,
                                                             exception.pattern)]
    /\ UNCHANGED << engineVars, metrics, recorderVars, ffiVars, libVars, stats, updater,
                    css, optimizer >>

NextException == MatchesExceptionPattern

SpecException == InitException /\ [][NextException]_vars

(***************************************************************************)
(* MemoryOptimizer: a byte-bounded cache.  An entry is its size, the time  *)
(* of its last access and its access count; calls are made one at a time.  *)
(***************************************************************************)

\* MemoryOptimizer::new: 30 * 1024 * 1024
DefaultMaxCacheSize == 31457280

\* LruCache::new(1000)
LruMaxEntries == 1000

CacheEntry(size, last_accessed, access_count) ==
    [size |-> size, last_accessed |-> last_accessed, access_count |-> access_count]

\* now stands for Instant::now(): the number of accesses made so far
MemoryOptimizer_new ==
    [max_cache_size |-> DefaultMaxCacheSize, current_cache_size |-> 0,
     entries |-> << >>, access_order |-> << >>, max_entries |-> LruMaxEntries, now |-> 0]

\* HashMap::remove
RemoveKey(entries, key) == [k \in DOMAIN entries \ { key } |-> entries[k]]

\* HashMap::insert
InsertKey(entries, key, entry) ==
    [k \in DOMAIN entries \cup { key } |-> IF k = key THEN entry ELSE entries[k]]

\* LruCache::compact_access_order: keep the first occurrence of every key that
\* still has an entry
RECURSIVE Compact(_, _, _)
Compact(entries, access_order, seen) ==
    IF access_order = << >>
    THEN << >>
    ELSE LET key == Head(access_order)
         IN  IF key \in DOMAIN entries /\ key \notin seen
             THEN << key >> \o Compact(entries, Tail(access_order), seen \cup { key })
             ELSE Compact(entries, Tail(access_order), seen)

compact_access_order(c) ==
    [c EXCEPT !.access_order = Compact(c.entries, c.access_order, {})]

\* the keys sorted by last_accessed, oldest first
RECURSIVE ByLastAccessed(_)
ByLastAccessed(entries) ==
    IF DOMAIN entries = {}
    THEN << >>
    ELSE LET oldest == CHOOSE k \in DOMAIN entries :
                          \A j \in DOMAIN entries :
                              entries[k].last_accessed <= entries[j].last_accessed
         IN  << oldest >> \o ByLastAccessed(RemoveKey(entries, oldest))

\* the eviction loop of evict_to_fit
RECURSIVE EvictLoop(_, _, _)
EvictLoop(c, keys, needed_size) ==
    IF keys = << >> \/ c.current_cache_size + needed_size <= c.max_cache_size
    THEN c
    ELSE EvictLoop([c EXCEPT !.entries = RemoveKey(@, Head(keys)),
                             !.current_cache_size = @ - c.entries[Head(keys)].size],
                   Tail(keys), needed_size)

\* MemoryOptimizer::evict_to_fit
evict_to_fit(c, needed_size) ==
    compact_access_order(EvictLoop(c, ByLastAccessed(c.entries), needed_size))

\* MemoryOptimizer::evict_if_needed
evict_if_needed(c) ==
    IF c.current_cache_size > c.max_cache_size
    THEN evict_to_fit(c, c.current_cache_size - c.max_cache_size)
    ELSE c

\* MemoryOptimizer::set_max_memory
set_max_memory(c, bytes) == evict_if_needed([c EXCEPT !.max_cache_size = bytes])

\* MemoryOptimizer::get_memory_usage
get_memory_usage(c) == c.current_cache_size

\* MemoryOptimizer::cache_data, for data of the given length
cache_data(c, key, size) ==
    LET fitted == IF c.current_cache_size + size > c.max_cache_size
                  THEN evict_to_fit(c, size)
                  ELSE c
        removed == IF key \in DOMAIN fitted.entries
                   THEN [fitted EXCEPT !.entries = RemoveKey(@, key),
                                       !.current_cache_size = @ - fitted.entries[key].size]
                   ELSE fitted
        added == [removed EXCEPT !.entries = InsertKey(@, key, CacheEntry(size, c.now, 1)),
                                 !.access_order = Append(@, key),
                                 !.current_cache_size = @ + size,
                                 !.now = @ + 1]
    IN  IF Len(added.access_order) > added.max_entries * 2
        THEN compact_access_order(added)
        ELSE added

\* MemoryOptimizer::get_cached: the size of the data found, if any
get_cached(c, key) ==
    IF key \in DOMAIN c.entries
    THEN [ret |-> Some(c.entries[key].size),
          self |-> [c EXCEPT !.entries[key].last_accessed = c.now,
                             !.entries[key].access_count = @ + 1,
                             !.now = @ + 1]]
    ELSE [ret |-> None, self |-> c]

\* MemoryOptimizer::clear_cache
clear_cache(c) ==
    [c EXCEPT !.entries = << >>, !.access_order = << >>, !.current_cache_size = 0]

MaxAccesses == 3

CacheKeys == { "a", "b" }

DataSizes == { 1, 2, 3 }

MemoryLimits == { 1, 2, 4 }

Optimizer(self, op, key, size) ==
    [made |-> TRUE, self |-> self, call |-> [op |-> op, key |-> key, size |-> size]]

InitOptimizer ==
    /\ engine = new_with_patterns(<< >>)
    /\ metrics = NewMetrics
    /\ calls = 0
    /\ last = NoOutcome
    /\ RecorderIdle
    /\ LibIdle
    /\ FfiIdle
    /\ stats = NoStats
    /\ updater = NoUpdater
    /\ css = NoCssCall
    /\ exception = NoExceptionCall
    /\ optimizer = Optimizer(MemoryOptimizer_new, "new", "", 0)

OptimizerUnchanged ==
    UNCHANGED << engineVars, metrics, recorderVars, ffiVars, libVars, stats, updater, css,
                 exception >>

SetMaxMemory(bytes) ==
    /\ optimizer.made
    /\ optimizer' = Optimizer(set_max_memory(optimizer.self, bytes), "set_max_memory", "",
                              bytes)
    /\ OptimizerUnchanged

CacheData(key, size) ==
    /\ optimizer.made
    /\ optimizer.self.now < MaxAccesses
    /\ optimizer' = Optimizer(cache_data(optimizer.self, key, size), "cache_data", key, size)
    /\ OptimizerUnchanged

GetCached(key) ==
    /\ optimizer.made
    /\ optimizer.self.now < MaxAccesses
    /\ optimizer' = Optimizer(get_cached(optimizer.self, key).self, "get_cached", key, 0)
    /\ OptimizerUnchanged

ClearCache ==
    /\ optimizer.made
    /\ optimizer' = Optimizer(clear_cache(optimizer.self), "clear_cache", "", 0)
    /\ OptimizerUnchanged

NextOptimizer ==
    \/ \E bytes \in MemoryLimits : SetMaxMemory(bytes)
    \/ \E key \in CacheKeys, size \in DataSizes : CacheData(key, size)
    \/ \E key \in CacheKeys : GetCached(key)
    \/ ClearCache

SpecOptimizer == InitOptimizer /\ [][NextOptimizer]_vars

(***************************************************************************)
(* SpecReset: the shared PerformanceMetrics of SpecMetrics with one more   *)
(* thread that calls reset(); every store of reset is one step.            *)
(***************************************************************************)
Resetter == "resetter"

\* the counters reset stores to, in the order of its stores (line 169-175); the
\* stores of line 176-179 are to counters record_request never touches
ResetOrder ==
    << "total_requests", "blocked_requests", "allowed_requests",
       "total_processing_time_ns", "avg_processing_time_ns",
       "max_processing_time_ns", "min_processing_time_ns" >>

InitReset ==
    /\ engine = new_with_patterns(<< >>)
    /\ metrics = NewMetrics
    /\ calls = 0
    /\ last = Last("new", "", NoOutcome)
    /\ threads = [t \in Threads \cup { Resetter } |-> IdleThread]
    /\ issued = NoneIssued
    /\ FfiIdle
    /\ SvcIdle
    /\ LibIdle

\* the i-th store of reset: the first one opens the call, the last one closes it
ResetStore(i) ==
    /\ At(Resetter, IF i = 1 THEN "idle" ELSE ResetOrder[i])
    /\ metrics' = [metrics EXCEPT
                      ![ResetOrder[i]] =
                          IF ResetOrder[i] = "min_processing_time_ns" THEN U64_MAX ELSE 0]
    /\ Goto(Resetter, IF i = Len(ResetOrder) THEN "idle" ELSE ResetOrder[i + 1])
    /\ UNCHANGED << engineVars, issued, ffiVars, libVars, svcVars >>

NextReset ==
    \/ \E t \in Threads, blocked \in BOOLEAN, time_ns \in ElapsedTimes :
          RecordBegin(t, blocked, time_ns)
    \/ \E t \in Threads : RecordOutcome(t)
    \/ \E t \in Threads : RecordTime(t)
    \/ \E t \in Threads : RecordMax(t)
    \/ \E t \in Threads : LoadMin(t)
    \/ \E t \in Threads : CasMinOk(t)
    \/ \E t \in Threads : CasMinFail(t)
    \/ \E t \in Threads : LoadTotal(t)
    \/ \E t \in Threads : LoadTime(t)
    \/ \E t \in Threads : RecordAvg(t)
    \/ \E i \in 1..Len(ResetOrder) : ResetStore(i)

SpecReset == InitReset /\ [][NextReset]_vars

(***************************************************************************)
(* Vocabulary of the properties.                                           *)
(***************************************************************************)
Called == last.op = "should_block"

Blocked == last.outcome.should_block

\* the engine's automaton and side table are those of its current rule list
Compiled == engine = compile_patterns(engine)

\* the authority of a url: the text after "://" up to the first "/"
HasScheme(url) == Find(url, "://") # NotFound

UrlHost(url) == Head(Split(SliceFrom(url, Find(url, "://") + 3), "/"))

HostUnder(url, d) ==
    HasScheme(url) /\ (UrlHost(url) = d \/ EndsWith(UrlHost(url), "." \o d))

RulesOfKind(kind) == { i \in 1..Len(engine.rules) : engine.rules[i].kind = kind }

ExceptionMatches(url) ==
    \E i \in RulesOfKind("Exception") :
        matches_exception_pattern(url, engine.rules[i].text) = MATCH

ExampleRules == << "||ads.com^", "@@||ads.com/acceptable/*" >>

(***************************************************************************)
(* C1: exception precedence.  Whenever an exception rule of the engine     *)
(* matches the url of a should_block call, the call returns                *)
(* should_block = false, whatever block rules match too; with the rules    *)
(* ["||ads.com^", "@@||ads.com/acceptable/*"], https://ads.com/banner is   *)
(* blocked and https://ads.com/acceptable/x is allowed.                    *)
(***************************************************************************)
C1_ExceptionPrecedence ==
    /\ (Called /\ ExceptionMatches(last.url)) => ~Blocked
    /\ (Called /\ engine = new_with_patterns(ExampleRules)) =>
          /\ (last.url = "https://ads.com/banner" => Blocked)
          /\ (last.url = "https://ads.com/acceptable/x" => ~Blocked)

\* an exception wins over a subdomain rule that matches the same url
C1_Witness ==
    /\ Called
    /\ engine = new_with_patterns(ExampleRules)
    /\ last.url = "https://ads.com/acceptable/x"
    /\ HostUnder(last.url, "ads.com")
    /\ ExceptionMatches(last.url)
    /\ ~Blocked

(***************************************************************************)
(* C2: in a compiled engine that holds the rule ||d^, every url whose host *)
(* is d or a subdomain of d, and that no exception matches, is blocked,    *)
(* whatever other rules the engine holds.                                  *)
(***************************************************************************)
C2_SubdomainAnchorBlocks ==
    (/\ Called
     /\ Compiled
     /\ ~ExceptionMatches(last.url)
     /\ \E i \in RulesOfKind("SubdomainPattern") :
            HostUnder(last.url, engine.rules[i].text))
    => Blocked

C4_DomainSubstringBlocks ==
    (/\ Called
     /\ Compiled
     /\ ~ExceptionMatches(last.url)
     /\ \E i \in RulesOfKind("Domain") : Contains(last.url, engine.rules[i].text))
    => Blocked

(***************************************************************************)
(* C5: should_block is total.  For every engine that construction,         *)
(* add_rule and build_domain_matcher can produce and every url, the call   *)
(* returns a decision; it does not panic.                                  *)
(***************************************************************************)
C5_ShouldBlockTotal ==
    Called =>
        /\ ~last.outcome.panicked
        /\ last.outcome.should_block \in BOOLEAN
        /\ Len(last.outcome.reason) <= 1

\* a call on the empty url, on an engine whose added rules were never compiled
C5_Witness ==
    /\ Called
    /\ last.url = ""
    /\ ~Compiled
    /\ engine.domain_matcher.some
    /\ ~last.outcome.panicked

(***************************************************************************)
(* C8: every should_block call adds exactly 1 to total_requests and        *)
(* exactly 1 to blocked_requests or to allowed_requests, the one that      *)
(* agrees with the returned should_block flag.                             *)
(***************************************************************************)
C8_EveryCallCounted ==
    [][calls' = calls + 1 =>
          /\ metrics'.total_requests = metrics.total_requests + 1
          /\ metrics'.blocked_requests =
                metrics.blocked_requests + (IF last'.outcome.should_block THEN 1 ELSE 0)
          /\ metrics'.allowed_requests =
                metrics.allowed_requests + (IF last'.outcome.should_block THEN 0 ELSE 1)
      ]_vars

(***************************************************************************)
(* Vocabulary of the metrics properties.                                   *)
(***************************************************************************)
AllReturned == \A t \in Threads : At(t, "idle")

(***************************************************************************)
(* C9: no lost updates.  Once all the record_request calls issued by the   *)
(* threads have returned, snapshot() reports total_requests = the number   *)
(* of calls, blocked_requests = the calls with blocked = true and          *)
(* allowed_requests = the calls with blocked = false.                      *)
(***************************************************************************)
C9_NoLostUpdates ==
    AllReturned =>
        /\ snapshot(metrics).total_requests = issued.n
        /\ snapshot(metrics).blocked_requests = issued.blocked
        /\ snapshot(metrics).allowed_requests = issued.allowed

\* calls of both kinds ran while another thread was inside record_request
C9_Witness ==
    /\ AllReturned
    /\ issued.overlapped
    /\ issued.n = MaxCalls
    /\ issued.blocked > 0
    /\ issued.allowed > 0
    /\ snapshot(metrics).total_requests = MaxCalls

(***************************************************************************)
(* C10: once all the record_request calls, sequential or concurrent, have  *)
(* returned, snapshot().avg_processing_time_ns is the integer quotient of  *)
(* the sum of the recorded latencies by the number of recorded requests.   *)
(***************************************************************************)
C10_AverageIsSumOverCount ==
    (AllReturned /\ issued.n > 0) =>
        snapshot(metrics).avg_processing_time_ns = issued.time \div issued.n

(***************************************************************************)
(* C6: a failed adblock_engine_load_filter_list (one that returns false)   *)
(* leaves the engine's rule set unchanged: every url gets the same         *)
(* decision after the failed load as before it.                            *)
(***************************************************************************)
C6_FailedLoadKeepsEngine ==
    [][(/\ ffi_log'.completed = ffi_log.completed + 1
        /\ ffi_log'.last.op = "load"
        /\ ~ffi_log'.last.ret)
       => /\ core'.engine.rules = core.engine.rules
          /\ \A url \in FfiUrls :
                should_block(core'.engine, url) = should_block(core.engine, url)
      ]_vars

\* a load failed on a handle that an earlier load had given the list's rules
C6_Witness ==
    /\ ffi_log.last.op = "load"
    /\ ~ffi_log.last.ret
    /\ \E text \in FilterTexts : core.engine = from_filter_list(text)
    /\ should_block(core.engine, "https://ads.com/banner").should_block

(***************************************************************************)
(* C7: a should_block call that runs concurrently with a load returns the  *)
(* decision of one rule set, the one in force before the reload or the one *)
(* after it, never a mixture; a call made after the load returned true     *)
(* has only the new list in force, so it returns the new list's decision   *)
(* (the default rules no longer block).                                    *)
(***************************************************************************)
C7_DecisionOnOneRuleSet ==
    ffi_log.last.op = "should_block" =>
        \E e \in ffi_log.last.seen :
            ffi_log.last.ret = should_block(e, ffi_log.last.arg).should_block

\* a decision returned by a call during which a load replaced the default engine
C7_Witness ==
    /\ ffi_log.last.op = "should_block"
    /\ Cardinality(ffi_log.last.seen) = 2
    /\ new_with_defaults \in ffi_log.last.seen
    /\ ffi_log.last.arg = "https://doubleclick.net/ad"
    /\ ~ffi_log.last.ret

\* the fragments of the pattern of the call, and the call's place
FirstFragment == Split(wildcard.pattern, "*")[1]

LastFragment == Split(wildcard.pattern, "*")[Len(Split(wildcard.pattern, "*"))]

WildcardCalled(pattern, url) ==
    wildcard.pattern = pattern /\ wildcard.url = url /\ wildcard.result # "pending"

(***************************************************************************)
(* C11: wildcard prefix anchoring.  A pattern that does not begin with '*' *)
(* is accepted only for a url that starts with the pattern's first         *)
(* fragment; a pattern that begins with '*' is unanchored: the pattern     *)
(* with leading '*' and /ads/ matches https://x.com/ads/1 and              *)
(* http://y.com/a/ads/b, while /ads/ followed by '*' matches neither.      *)
(***************************************************************************)
C11_WildcardPrefixAnchored ==
    /\ (wildcard.result = MATCH /\ ~StartsWith(wildcard.pattern, "*"))
          => StartsWith(wildcard.url, FirstFragment)
    /\ \A url \in { "https://x.com/ads/1", "http://y.com/a/ads/b" } :
          /\ WildcardCalled("*/ads/*", url) => wildcard.result = MATCH
          /\ WildcardCalled("/ads/*", url) => wildcard.result = MISS

\* the url holds the first fragment, but not at position 0: rejected
C11_Witness ==
    /\ WildcardCalled("/ads/*", "https://x.com/ads/1")
    /\ Contains(wildcard.url, FirstFragment)
    /\ wildcard.result = MISS

(***************************************************************************)
(* C12: wildcard suffix anchoring.  A pattern that does not end with '*',  *)
(* a pattern of one fragment and no '*' included, is accepted only if its  *)
(* last fragment is a suffix of the url tail left after the earlier        *)
(* fragments, hence a suffix of the url.                                   *)
(***************************************************************************)
C12_WildcardSuffixAnchored ==
    (wildcard.result = MATCH /\ ~EndsWith(wildcard.pattern, "*"))
        => EndsWith(wildcard.url, LastFragment)

\* the lines the parser is said to keep
KeptLine(trimmed) ==
    /\ trimmed # ""
    /\ ~StartsWith(trimmed, "!")
    /\ ~StartsWith(trimmed, "[")
    /\ ~Contains(trimmed, "##")
    /\ ~Contains(trimmed, "#@#")

RECURSIVE KeptLines(_)
KeptLines(lines) ==
    IF lines = << >> THEN << >>
    ELSE IF KeptLine(Trim(Head(lines)))
    THEN << Trim(Head(lines)) >> \o KeptLines(Tail(lines))
    ELSE KeptLines(Tail(lines))

(***************************************************************************)
(* C13: parse_filter_list returns, in input order, exactly the trimmed     *)
(* lines that are non-empty and are not comments ('!' prefix), bracketed   *)
(* metadata ('[' prefix) or cosmetic lines holding '##' or '#@#'.          *)
(***************************************************************************)
C13_ParseFilterListKeeps ==
    loader.stage \in { "parsed", "classified" }
        => loader.raw_rules = KeptLines(Lines(loader.filter_list))

\* the rule each raw line is said to become
ClassifiedAs(line) ==
    IF StartsWith(line, "@@") THEN Rule("Exception", SliceFrom(line, 2))
    ELSE IF StartsWith(line, "||") /\ EndsWith(line, "^") /\ Len(line) >= 3
    THEN Rule("SubdomainPattern", Slice(line, 2, Len(line) - 1))
    ELSE IF Contains(line, "*") \/ (StartsWith(line, "/") /\ EndsWith(line, "/*"))
    THEN Rule("Pattern", line)
    ELSE Rule("Domain", line)

(***************************************************************************)
(* C14: the classifier maps every raw line by the first applicable case:   *)
(* '@@' prefix gives Exception(remainder); '||' prefix with '^' suffix     *)
(* gives the subdomain anchor of the text between; a line with '*', or     *)
(* from '/' to '/*', gives the wildcard pattern; every other line, one     *)
(* with '||' prefix but neither '^' suffix nor '*' included, gives         *)
(* Domain(line).                                                           *)
(***************************************************************************)
C14_ClassifierCases ==
    loader.stage = "classified"
        => /\ Len(loader.rules) = Len(loader.raw_rules)
           /\ \A i \in 1..Len(loader.rules) :
                 loader.rules[i] = ClassifiedAs(loader.raw_rules[i])

\* what matched the url of the last call, by the matchers of should_block
LiteralMatches(url) == check_aho_corasick_matches(engine, url).tag = "some"

WildcardMatches(url) ==
    \E i \in RulesOfKind("Pattern") :
        matches_wildcard_pattern(url, engine.rules[i].text) = MATCH

\* the reasons that name a rule of the engine which accepts the url
BlockReasons(url) ==
    { "Matched ad domain: " \o engine.rules[i].text :
         i \in { j \in RulesOfKind("Domain") : Contains(url, engine.rules[j].text) } }
    \cup { "Matched subdomain: " \o engine.rules[i].text :
              i \in { j \in RulesOfKind("SubdomainPattern") :
                         HostUnder(url, engine.rules[j].text) } }
    \cup { "Matched pattern: " \o engine.rules[i].text :
              i \in { j \in RulesOfKind("Pattern") :
                         matches_wildcard_pattern(url, engine.rules[j].text) = MATCH } }

ExceptionReasons(url) ==
    { "Whitelisted by exception: " \o engine.rules[i].text :
         i \in { j \in RulesOfKind("Exception") :
                    matches_exception_pattern(url, engine.rules[j].text) = MATCH } }

JustCompiled == last.op \in { "new", "build_domain_matcher" }

\* a second engine built from the rule list of the first
BuiltAgain == compile_patterns(Engine(engine.rules, NoMatcher, << >>))

(***************************************************************************)
(* C20: idempotent compilation.  A second engine built from the same rule  *)
(* list, and the same engine after build_domain_matcher is called again    *)
(* with no rule change, return the decision and reason of the first for    *)
(* every url.                                                              *)
(***************************************************************************)
C20_CompilationIdempotent ==
    JustCompiled =>
        \A url \in Urls :
            /\ should_block(BuiltAgain, url) = should_block(engine, url)
            /\ should_block(build_domain_matcher(engine), url) = should_block(engine, url)

\* an engine compiled, given one more rule and compiled again, that blocks a url
C20_Witness ==
    /\ last.op = "build_domain_matcher"
    /\ Len(engine.rules) = 2
    /\ Len(engine.pattern_info) = 2
    /\ should_block(engine, "https://sub.ads.com/").should_block

\* the rules of the matcher, and the lines that carry no option part
MatcherRules ==
    { matcher.rm.block_rules[i] : i \in 1..Len(matcher.rm.block_rules) }
    \cup { matcher.rm.allow_rules[i] : i \in 1..Len(matcher.rm.allow_rules) }

OptionFree == \A i \in 1..Len(matcher.lines) : ~Contains(matcher.lines[i], "$")

(***************************************************************************)
(* C16: for a rule set whose rules carry no options, and any url and       *)
(* match context, RuleMatcher.should_block gives the decision of the       *)
(* FilterEngine built from the same rule lines.                            *)
(***************************************************************************)
C16_MatchersAgree ==
    (matcher.called /\ OptionFree)
        => matcher.result
              = should_block(new_with_patterns(matcher.lines), matcher.url).should_block

\* the scope entries of a rule, split by sign
PlainEntries(rule) ==
    { rule.options.domain[1][i] : i \in { j \in 1..Len(rule.options.domain[1]) :
                                             ~StartsWith(rule.options.domain[1][j], "~") } }

NegatedEntries(rule) ==
    { SliceFrom(rule.options.domain[1][i], 1) :
         i \in { j \in 1..Len(rule.options.domain[1]) :
                    StartsWith(rule.options.domain[1][j], "~") } }

Scoped(rule) == rule.options.domain # None

(***************************************************************************)
(* C17: domain scope.  A rule with a domain-scope list applies to a        *)
(* request only if the page_domain ends with at least one non-negated      *)
(* entry and with no negated entry; domain=a.com|~sub.a.com on page        *)
(* sub.a.com is suppressed.                                                *)
(***************************************************************************)
C17_DomainScope ==
    (matcher.called /\ matcher.options.domain # None)
        => \A rule \in { r \in MatcherRules : Scoped(r) } :
              matches_rule(rule, matcher.url, matcher.options)
                 => /\ \E d \in PlainEntries(rule) : EndsWith(matcher.options.domain[1], d)
                    /\ \A d \in NegatedEntries(rule) :
                          ~EndsWith(matcher.options.domain[1], d)

(***************************************************************************)
(* C18: a rule that carries a domain scope does not apply (matches_rule    *)
(* is false) when the match context has no page_domain.                    *)
(***************************************************************************)
C18_ScopeNeedsPageDomain ==
    (matcher.called /\ matcher.options.domain = None)
        => \A rule \in { r \in MatcherRules : Scoped(r) } :
              ~matches_rule(rule, matcher.url, matcher.options)

\* the rule's flag for the content type of the request (None for Other)
OwnFlag(rule, content_type) ==
    CASE content_type = "Script" -> rule.options.script
      [] content_type = "Image" -> rule.options.image
      [] content_type = "Stylesheet" -> rule.options.stylesheet
      [] content_type = "Object" -> rule.options.object
      [] content_type = "XmlHttpRequest" -> rule.options.xmlhttprequest
      [] content_type = "Subdocument" -> rule.options.subdocument
      [] content_type = "Document" -> rule.options.document
      [] content_type = "Websocket" -> rule.options.websocket
      [] content_type = "Media" -> rule.options.media
      [] content_type = "Font" -> rule.options.font
      [] OTHER -> None

(***************************************************************************)
(* C19: content-type scoping.  A rule is rejected for a request whose      *)
(* content type's own flag is set to false on the rule, and is applicable  *)
(* as far as content type goes when that flag is absent or true, whatever  *)
(* the rule's other content-type flags are.                                *)
(***************************************************************************)
C19_ContentTypeOwnFlag ==
    matcher.called =>
        \A rule \in MatcherRules :
            LET flag == OwnFlag(rule, matcher.options.content_type)
            IN  /\ flag = Some(FALSE)
                      => /\ ~matches_content_type(rule, matcher.options)
                         /\ ~matches_rule(rule, matcher.url, matcher.options)
                /\ flag # Some(FALSE) => matches_content_type(rule, matcher.options)

\* a rule with script set and image set to false, asked about an image: no block
C19_Witness ==
    /\ matcher.called
    /\ matcher.lines = << "ads.com$script,~image" >>
    /\ matcher.options.content_type = "Image"
    /\ matcher.url = "https://ads.com/banner"
    /\ ~matcher.result

(***************************************************************************)
(* C21: after adblock_engine_add_rule returned true for a rule r,          *)
(* adblock_engine_should_block on that engine blocks the urls r matches    *)
(* (after adding ||ads.com^, https://ads.com/... is blocked), while urls   *)
(* matched by no rule stay allowed.                                        *)
(***************************************************************************)
C21_AddedRuleBlocks ==
    ffi_log.last.op = "should_block" =>
        /\ \A r \in ffi_log.added :
              (/\ should_block(new_with_patterns(<< r >>), ffi_log.last.arg).should_block
               /\ ExceptionPass(core.engine, ffi_log.last.arg, 1) = 0)
                 => ffi_log.last.ret
        /\ ("||ads.com^" \in ffi_log.added
              /\ ffi_log.last.arg = "https://ads.com/banner") => ffi_log.last.ret


RECURSIVE SumSizes(_)
SumSizes(events) ==
    IF events = << >> THEN 0 ELSE Head(events).size + SumSizes(Tail(events))

BlockedEvents(events) == SelectSeq(events, LAMBDA e : e.blocked)

AllowedEvents(events) == SelectSeq(events, LAMBDA e : ~e.blocked)

\* C22: after any sequence of record_blocked / record_allowed calls, and of
\* check_url calls, total_blocked is the number of blocked events, total_allowed
\* the number of allowed events, data_saved the sum of the sizes of the blocked
\* events only; a check_url call records one event carrying the decision it
\* returned, and that decision is the engine's answer for the URL whatever the
\* size.
C22_CountersFollowEvents ==
    stats.kind # "none" =>
        /\ total_blocked(stats.core.statistics) = Len(BlockedEvents(stats.history))
        /\ total_allowed(stats.core.statistics) = Len(AllowedEvents(stats.history))
        /\ data_saved(stats.core.statistics) = SumSizes(BlockedEvents(stats.history))
        /\ total_blocked(stats.core.statistics) + total_allowed(stats.core.statistics)
              = Len(stats.history)
        /\ stats.call.op = "check_url" =>
              /\ stats.call.ret
                    = << should_block(stats.core.engine, stats.call.arg).should_block >>
              /\ recent_events(stats.core.statistics, 1)
                    = << BlockEvent(extract_domain(stats.call.arg), stats.call.ret[1],
                                    stats.call.size) >>

C22_Witness ==
    /\ stats.kind = "core"
    /\ stats.call.op = "check_url"
    /\ Len(BlockedEvents(stats.history)) = 1
    /\ Len(AllowedEvents(stats.history)) = 2
    /\ \E i, j \in 1..Len(stats.history) :
          /\ stats.history[i].blocked /\ ~stats.history[j].blocked
          /\ stats.history[i].size # stats.history[j].size

\* the events a Statistics still stores: the newest max_recent_events of them
Stored(events, max_recent_events) ==
    SubSeq(events, saturating_sub(Len(events), max_recent_events) + 1, Len(events))

Min(a, b) == IF a <= b THEN a ELSE b

\* C23: recent_events(n) returns the min(n, number of stored events) most
\* recently recorded events, newest first, blocked and allowed alike, in the
\* reverse of their recording order.
C23_RecentEventsNewestFirst ==
    stats.call.op = "recent_events" =>
        LET n == stats.call.size
            stored == Stored(stats.history, stats.core.statistics.config.max_recent_events)
            k == Min(n, Len(stored))
        IN  /\ Len(stats.call.ret) = k
            /\ \A i \in 1..k : stats.call.ret[i] = stats.history[Len(stats.history) + 1 - i]

C23_Witness ==
    /\ stats.call.op = "recent_events"
    /\ stats.call.size = 2
    /\ Len(stats.history) = 3
    /\ Len(stats.call.ret) = 2
    /\ stats.call.ret[1].blocked /\ ~stats.call.ret[2].blocked
    /\ stats.call.ret[1] = stats.history[3]


UpdaterCalled(op) == updater.made /\ updater.call.op = op

\* C24: needs_update() is true for an updater that has never been updated
\* (no update on it, none recorded in the cache directory it was given), false
\* at the clock reading of a successful update, and true again once at least
\* update_interval has elapsed since the last update.
C24_NeedsUpdateFollowsClock ==
    UpdaterCalled("needs_update") =>
        LET at == updater.before.now
            updated_at == updater.before.updated_at
        IN  /\ (updated_at = None /\ ~updater.loaded) => updater.call.ret
            /\ updated_at = Some(at) => ~updater.call.ret
            /\ (updated_at # None
                  /\ at - updated_at[1] >= updater.self.config.update_interval)
                     => updater.call.ret

C24_Witness ==
    /\ UpdaterCalled("needs_update")
    /\ updater.before.updated_at = Some(1)
    /\ updater.before.now = 3
    /\ updater.self.config.update_interval = 2
    /\ updater.call.ret

AllDownloadsFail(urls) == \A i \in 1..Len(urls) : ~download_filter_list(urls[i]).ok

\* C25: with a cache file present and every configured URL failing to download,
\* auto_update returns the cached filter content instead of an error.
C25_CachedFiltersOnFailure ==
    (/\ UpdaterCalled("auto_update")
     /\ updater.before.self.config.cache_dir # None
     /\ updater.before.fs.cache_file # None
     /\ AllDownloadsFail(updater.before.self.config.urls))
        => updater.call.ret = Ok(updater.before.fs.cache_file[1])


\* a cosmetic line: its domain part is what precedes the first "##", its
\* selector everything after that separator
CosmeticLine(line) == Contains(line, "##")

DomainPart(line) == Split(line, "##")[1]

SelectorText(line) == SliceFrom(line, Len(DomainPart(line)) + Len("##"))

CssApplies(line, domain) ==
    /\ CosmeticLine(line)
    /\ \/ DomainPart(line) = ""
       \/ DomainPart(line) = domain
       \/ /\ Len(DomainPart(line)) > 0
          /\ Slice(DomainPart(line), 0, 1) = "~"
          /\ SliceFrom(DomainPart(line), 1) # domain

TrimmedLines(content) == [i \in 1..Len(Lines(content)) |-> Trim(Lines(content)[i])]

ExceptionCalled == exception.result # "pending"

\* C27: for every option-free rule text r and every URL u, the exception @@r
\* matches u exactly when an engine whose only rule is r would block u.
C27_ExceptionMatchesAsBlocking ==
    ExceptionCalled =>
        ((exception.result = MATCH)
            <=> should_block(new_with_patterns(<< exception.pattern >>),
                             exception.url).should_block)

\* the anchored path form ||d/p or ||d/p*, p without further '*'
AnchoredPath(pattern) ==
    /\ StartsWith(pattern, "||")
    /\ ~EndsWith(pattern, "^")
    /\ Contains(pattern, "/")
    /\ ~Contains(TrimEndMatches(pattern, "*"), "*")

AnchoredDomain(pattern) == Head(Split(SliceFrom(pattern, 2), "/"))

AnchoredPrefix(pattern) ==
    TrimEndMatches(SliceFrom(pattern, 2 + Len(AnchoredDomain(pattern))), "*")

\* the part of the url that follows its host
AfterHost(url) ==
    SliceFrom(url, Find(url, "://") + 3 + Len(UrlHost(url)))

\* C28: for an exception @@||d/p* or @@||d/p, a URL is allowed by it exactly
\* when its host equals d or ends with "." + d and the part of the URL that
\* follows the host's occurrence of d starts with the path p, also when d
\* occurs more than once in the URL.
C28_AnchoredPathException ==
    (ExceptionCalled /\ AnchoredPath(exception.pattern)) =>
        ((exception.result = MATCH)
            <=> /\ HostUnder(exception.url, AnchoredDomain(exception.pattern))
                /\ StartsWith(AfterHost(exception.url), AnchoredPrefix(exception.pattern)))


\* an exhaustive glob matcher: '*' stands for any text, every other character
\* for itself, and the whole url must be consumed
RECURSIVE GlobMatch(_, _)
GlobMatch(pattern, url) ==
    IF pattern = ""
    THEN url = ""
    ELSE IF Slice(pattern, 0, 1) = "*"
    THEN \E k \in 0..Len(url) : GlobMatch(SliceFrom(pattern, 1), SliceFrom(url, k))
    ELSE /\ url # ""
         /\ Slice(url, 0, 1) = Slice(pattern, 0, 1)
         /\ GlobMatch(SliceFrom(pattern, 1), SliceFrom(url, 1))

\* C29: the wildcard matcher accepts a URL exactly when an exhaustive '*'-glob
\* matcher accepts it (the fragments in order, without overlap, under the
\* prefix and suffix anchors), and a pattern made only of '*' matches every URL.
C29_WildcardIsGlob ==
    wildcard.result # "pending" =>
        /\ (wildcard.result = MATCH) <=> GlobMatch(wildcard.pattern, wildcard.url)
        /\ wildcard.pattern = "*" => wildcard.result = MATCH


\* the Domain and SubdomainPattern rules, in rule order
LiteralRules == SelectSeq(engine.rules,
                          LAMBDA rule : rule.kind \in { "Domain", "SubdomainPattern" })

TypeOfKind(kind) == IF kind = "SubdomainPattern" THEN "Subdomain" ELSE "Domain"

\* C30: in every state reachable by construction, add_rule, build_domain_matcher
\* and load_easylist_rules, for every pattern id i the automaton can report,
\* pattern_info[i] exists and holds the literal text and the rule type of the
\* i-th literal pattern given to the automaton builder.
C30_PatternInfoAligned ==
    engine.domain_matcher.some =>
        \A i \in 1..Len(engine.domain_matcher.patterns) :
            /\ i <= Len(engine.pattern_info)
            /\ i <= Len(LiteralRules)
            /\ engine.pattern_info[i].pattern = engine.domain_matcher.patterns[i]
            /\ engine.pattern_info[i].pattern = LiteralRules[i].text
            /\ engine.pattern_info[i].rule_type = TypeOfKind(LiteralRules[i].kind)

\* a list of two literals of different types was loaded into the engine
C30_Witness ==
    /\ last.op = "load_easylist_rules"
    /\ engine.domain_matcher.some
    /\ Len(engine.domain_matcher.patterns) = 2
    /\ engine.pattern_info[1].rule_type = "Subdomain"
    /\ engine.pattern_info[2].rule_type = "Domain"


\* FilterEngine::get_pattern_stats
get_pattern_stats(e) ==
    [compiled_patterns |-> Len(e.rules), uses_aho_corasick |-> e.domain_matcher.some]

\* the last operation on the engine was a constructor or ended with a compilation
AfterCompilation == last.op \in { "new", "build_domain_matcher", "load_easylist_rules" }

\* C31: after construction or recompilation the automaton is present
\* (get_pattern_stats().uses_aho_corasick) exactly when the rule set holds at
\* least one Domain or SubdomainPattern rule; with no literal rule the automaton
\* is absent and the literal pass misses for every URL.
C31_AutomatonIffLiterals ==
    AfterCompilation =>
        /\ get_pattern_stats(engine).uses_aho_corasick <=> (LiteralRules # << >>)
        /\ get_pattern_stats(engine).compiled_patterns = Len(engine.rules)
        /\ LiteralRules = << >> =>
              \A url \in Urls : check_aho_corasick_matches(engine, url) = [tag |-> "none"]

\* rules were compiled, none of them a literal: no automaton
C31_Witness ==
    /\ last.op = "build_domain_matcher"
    /\ Len(engine.rules) = 2
    /\ LiteralRules = << >>
    /\ ~get_pattern_stats(engine).uses_aho_corasick


C33_UsageWithinMaximum ==
    (optimizer.made /\ optimizer.call.op = "cache_data") =>
        get_memory_usage(optimizer.self) <= optimizer.self.max_cache_size


ElementHidingLine(line) == Contains(line, "##") \/ Contains(line, "#@#")

\* the matcher obtained by parsing and adding the given lines to a new RuleMatcher
RECURSIVE MatcherOf(_)
MatcherOf(lines) ==
    IF lines = << >>
    THEN RuleMatcher_new
    ELSE LET rm == MatcherOf(SubSeq(lines, 1, Len(lines) - 1))
             parsed == RuleParser_parse_rule(lines[Len(lines)])
         IN  IF parsed = None THEN rm ELSE RuleMatcher_add_rule(rm, parsed[1])

\* C34: element-hiding lines ('##' and '#@#') parsed by RuleParser and added
\* to a RuleMatcher never change the result of should_block: the result is the
\* one of the matcher fed the other lines only.
C34_CosmeticLinesInert ==
    matcher.called =>
        matcher.result
            = RuleMatcher_should_block(
                  MatcherOf(SelectSeq(matcher.lines, LAMBDA line : ~ElementHidingLine(line))),
                  matcher.url, matcher.options)


\* C35: between add_rule(r) and the next build_domain_matcher(), should_block
\* returns the decisions it returned before add_rule, for every kind of rule r:
\* an add_rule step changes the decision for no URL.
C35_AddedRuleWaitsForCompile ==
    [][last'.op = "add_rule" =>
          \A url \in Urls :
              should_block(engine', url).should_block
                  = should_block(engine, url).should_block]_vars


\* C36: in every reachable state of a PerformanceMetrics shared between
\* threads, also while record_request and reset run concurrently,
\* blocked_requests + allowed_requests <= total_requests.
C36_OutcomesWithinTotal ==
    metrics.blocked_requests + metrics.allowed_requests <= metrics.total_requests


\* the text get_stats returns for a core no request went through
ZeroStats == StatsJson(NewStatistics)

\* C37: a successful adblock_engine_load_filter_list replaces the whole
\* AdBlockCore, so the blocked/allowed counts and data_saved that
\* adblock_engine_get_stats reports restart from zero; a failed load leaves
\* them as they were; get_stats returns the counts of the core the handle holds.
C37_LoadRestartsStatistics ==
    /\ (ffi_log.last.op = "load" /\ ffi_log.last.ret)
          => StatsJson(get_statistics(core)) = ZeroStats
    /\ (ffi_log.last.op = "load" /\ ~ffi_log.last.ret)
          => StatsJson(get_statistics(core)) = ffi_log.before
    /\ (ffi_log.last.op = "get_stats" /\ ffi_log.last.ret)
          => ffi_log.json = StatsJson(get_statistics(core))

\* a filter list was loaded into a handle whose statistics had counted a request
C37_Witness ==
    /\ ffi_log.last.op = "load"
    /\ ffi_log.last.ret
    /\ ffi_log.before # ZeroStats
    /\ StatsJson(get_statistics(core)) = ZeroStats


\* C38: after every record_blocked or record_allowed call the number of stored
\* recent events is at most max_recent_events; over the limit the oldest event
\* is the one dropped, so the stored events are the latest ones in order; the
\* blocked and allowed counters count every call, dropped or not.
C38_RecentEventsBounded ==
    stats.kind # "none" =>
        LET s == stats.core.statistics
            kept == Min(s.config.max_recent_events, Len(stats.history))
        IN  /\ Len(s.recent_events) <= s.config.max_recent_events
            /\ s.recent_events
                  = SubSeq(stats.history, Len(stats.history) - kept + 1, Len(stats.history))
            /\ total_blocked(s) + total_allowed(s) = Len(stats.history)

\* three calls on a Statistics that keeps two events: the first one was dropped
C38_Witness ==
    /\ stats.kind = "statistics"
    /\ stats.call.op \in { "record_blocked", "record_allowed" }
    /\ stats.core.statistics.config.max_recent_events = 2
    /\ Len(stats.history) = 3
    /\ stats.core.statistics.recent_events = SubSeq(stats.history, 2, 3)
    /\ stats.history[1] # stats.history[2]


\* text holds the lists one after the other, in their order, from offset from on
RECURSIVE InOrder(_, _, _)
InOrder(text, lists, from) ==
    \/ lists = << >>
    \/ LET at == FindFrom(text, Head(lists), from)
       IN  /\ at # NotFound
           /\ InOrder(text, Tail(lists), at + Len(Head(lists)))

\* auto_update went on to download: it did not return the cached list
DownloadsTried ==
    \/ needs_update(updater.before.self, updater.before.now)
    \/ ~load_from_cache(updater.before.self, updater.before.fs).ok

\* every configured download failed and no cached list was returned: an error,
\* last_update and the cache files as before, needs_update() as before
AllFailedLeavesState ==
    (AllDownloadsFail(updater.before.self.config.urls) /\ DownloadsTried)
        => /\ ~updater.call.ret.ok
           /\ updater.self.last_update = updater.before.self.last_update
           /\ updater.fs = updater.before.fs
           /\ needs_update(updater.self, updater.before.now)
                 = needs_update(updater.before.self, updater.before.now)

\* the merged list is returned, holds the downloaded lists in configuration
\* order, and last_update is the time of the call
MergedAndStamped ==
    /\ updater.call.ret.ok
    /\ InOrder(updater.call.ret.value, Downloaded(updater.before.self.config.urls), 0)
    /\ updater.self.last_update = Some(updater.before.now)

\* the write of the merged list to the cache directory returned an io::Error
CacheWriteFailed ==
    updater.before.self.config.cache_dir # None /\ updater.before.fails # "none"

\* C39 as stated: if every configured download fails during auto_update and no
\* cached list is returned, auto_update returns an error and leaves last_update
\* and the cache files unchanged, so needs_update() keeps its value; when at
\* least one download succeeds the merged list contains every successfully
\* downloaded list in configuration order and last_update is set.
C39_AutoUpdateOutcomes ==
    UpdaterCalled("auto_update") =>
        /\ AllFailedLeavesState
        /\ (~AllDownloadsFail(updater.before.self.config.urls) /\ DownloadsTried)
              => MergedAndStamped

\* C39, with the cache write taken into account: as above when the merged list
\* is written (or no cache directory is configured); when the write fails
\* auto_update returns the error and last_update stays as it was.
C39_AutoUpdateOutcomesWritten ==
    UpdaterCalled("auto_update") =>
        /\ AllFailedLeavesState
        /\ (~AllDownloadsFail(updater.before.self.config.urls) /\ DownloadsTried)
              => IF CacheWriteFailed
                 THEN /\ ~updater.call.ret.ok
                      /\ updater.self.last_update = updater.before.self.last_update
                 ELSE MergedAndStamped

\* two of three downloads succeeded at clock reading 2, after an update at 0
C39_Witness ==
    /\ UpdaterCalled("auto_update")
    /\ Len(updater.before.self.config.urls) = 3
    /\ Len(Downloaded(updater.before.self.config.urls)) = 2
    /\ updater.before.self.last_update = Some(0)
    /\ updater.before.now = 2
    /\ updater.call.ret.ok
    /\ updater.self.last_update = Some(2)

====
